---- MODULE Spec2Model ----
(***************************************************************************)
(* Model of claude-teleport-analyzer: session-ID validation, the serde     *)
(* decode layer of SessionEvent, the ApiClient and its paginated           *)
(* get_events, and the cmd_* command handlers that drive them.             *)
(*                                                                         *)
(* Strings whose characters matter (session IDs, wire tags, variant        *)
(* identifiers) are sequences of one-character strings; Option<T> is the   *)
(* empty sequence (None) or a one-element sequence (Some).                 *)
(***************************************************************************)
EXTENDS Integers, Sequences, FiniteSets, TLC

VARIABLES
    cmd,          \* Commands variant being run (main.rs:409)
    session_id,   \* the session_id argument
    max_events,   \* the max_events argument of get_events
    pc,           \* position of the command's async fn
    cmd_result,   \* <<>> while running, else <<Ok/Err>> of the command
    cred_calls,   \* number of load_credentials() calls made
    access_token, \* ApiClient::new: <<>> or <<token>> read from the credentials
    api,          \* <<>> or <<ApiClient>> (access_token, org_uuid)
    session,      \* <<>> or <<Session>> returned by get_session
    net,          \* requests issued so far, in order
    inflight,     \* number of requests sent and not yet answered
    responses,    \* what the events endpoint answered, request by request
    http_responses, \* the HTTP responses received so far, as the server sent them
    all_events,   \* get_events: the accumulator
    after_id,     \* get_events: the cursor
    fetched,      \* concatenation of the decoded pages received so far
    last_page,    \* <<>> or <<[has_more, last_id]>> of the last page decoded
    ge_result,    \* <<>> or <<Result>> returned by get_events
    out,          \* what the command printed or wrote
    raw,          \* decode pipeline: the JSON value handed to from_value
    decoded,      \* decode pipeline: <<>> or <<Result<SessionEvent>>>
    encoded,      \* decode pipeline: <<>> or <<JSON written by to_string>>
    redecoded,    \* decode pipeline: <<>> or <<Result>> of decoding encoded
    read_events,  \* cmd_read: the events get_events returned
    read_args,    \* cmd_read: type_filter, conversation_only and search
    filtered,     \* cmd_read: <<>> or <<the filtered events>>
    search_event, \* event_contains_text: the event argument
    search_needle, \* event_contains_text: the needle argument
    found,        \* event_contains_text: <<>> or <<the bool returned>>
    list_args,    \* cmd_list: limit, status_filter, after and before
    list_dates,   \* cmd_list: <<>> or <<[after_dt, before_dt]>> once parsed
    sessions,     \* cmd_list: <<>> or <<the sessions list_sessions returned>>
    cred_env,     \* load_credentials: platform, Keychain, environment and file
    cred_log,     \* load_credentials: the sources consulted, in order
    cred_path,    \* load_credentials: <<>> or <<the path credentials_file_path gave>>
    cred_result   \* load_credentials: <<>> or <<Result>>

cmdVars == <<cmd, session_id, max_events, pc, cmd_result, cred_calls, access_token,
             api, session, net, inflight, responses, http_responses, all_events, after_id,
             fetched,
             last_page, ge_result, out>>
decVars == <<raw, decoded, encoded, redecoded>>
readVars == <<read_events, read_args, filtered>>
\* the variables no command action touches
searchVars == <<search_event, search_needle, found>>
listVars == <<list_args, list_dates, sessions>>
credVars == <<cred_env, cred_log, cred_path, cred_result>>
sideVars == <<readVars, searchVars, listVars, credVars>>
vars == <<cmd, session_id, max_events, pc, cmd_result, cred_calls, access_token,
          api, session, net, inflight, responses, http_responses, all_events, after_id,
          fetched,
          last_page, ge_result, out, raw, decoded, encoded, redecoded,
          read_events, read_args, filtered, search_event, search_needle,
          found, list_args, list_dates, sessions, cred_env, cred_log, cred_path,
          cred_result>>

None == <<>>
Some(v) == <<v>>
Ok(v) == [ok |-> TRUE, val |-> v]
Err(e) == [ok |-> FALSE, err |-> e]

(***************************************************************************)
(* Bounds of the model.                                                    *)
(***************************************************************************)
MaxSuffixLen == 9   \* longest suffix after the ID prefix that is enumerated
MaxPages == 2       \* page requests one get_events call may issue
MaxPageLen == 2     \* events in one page
MaxCap == 2         \* largest max_events tried

(***************************************************************************)
(* Strings.                                                                *)
(***************************************************************************)
\* UTF-8 width of a character: str::len() counts bytes, not characters.
\* "U+00E9" stands for the one character e-acute, which takes two bytes.
Utf8Len(c) == IF c = "U+00E9" THEN 2 ELSE 1

RECURSIVE ByteLen(_)
ByteLen(s) == IF s = <<>> THEN 0 ELSE Utf8Len(Head(s)) + ByteLen(Tail(s))

starts_with(s, p) == Len(s) >= Len(p) /\ SubSeq(s, 1, Len(p)) = p

SESSION_PREFIX == <<"s", "e", "s", "s", "i", "o", "n", "_">>

MinIdBytes == 16

\* client.rs:14 validate_session_id
validate_session_id(id) ==
    IF ~starts_with(id, SESSION_PREFIX) \/ ByteLen(id) < MinIdBytes
    THEN Err([kind |-> "Invalid session ID format", session |-> Some(id), page |-> None,
              status |-> None, body |-> None])
    ELSE Ok("unit")

(***************************************************************************)
(* JSON values (serde_json::Value).  An object is a function from keys to  *)
(* values; the kind is always inspected before the payload.                *)
(***************************************************************************)
JNull == [k |-> "null"]
JBool(b) == [k |-> "bool", b |-> b]
JNum(n) == [k |-> "num", n |-> n]
JStr(s) == [k |-> "str", s |-> s]
JArr(a) == [k |-> "arr", a |-> a]
JObj(o) == [k |-> "obj", o |-> o]

Has(o, key) == key \in DOMAIN o

(***************************************************************************)
(* Character tables.                                                       *)
(***************************************************************************)
UpperChars == <<"A", "B", "C", "D", "E", "F", "G", "H", "I", "J", "K", "L", "M",
                "N", "O", "P", "Q", "R", "S", "T", "U", "V", "W", "X", "Y", "Z">>
LowerChars == <<"a", "b", "c", "d", "e", "f", "g", "h", "i", "j", "k", "l", "m",
                "n", "o", "p", "q", "r", "s", "t", "u", "v", "w", "x", "y", "z">>

is_uppercase(c) == \E i \in 1..Len(UpperChars) : UpperChars[i] = c

to_ascii_lowercase(c) ==
    IF is_uppercase(c)
    THEN LowerChars[CHOOSE i \in 1..Len(UpperChars) : UpperChars[i] = c]
    ELSE c

\* Greek sigma: "U+03A3" is the capital letter, "U+03C3" the small letter
\* and "U+03C2" the small letter in its word-final form
CAPITAL_SIGMA == "U+03A3"
SMALL_SIGMA == "U+03C3"
FINAL_SIGMA == "U+03C2"

\* characters with the Cased property, among those the model uses
is_cased(c) ==
    \/ is_uppercase(c)
    \/ \E i \in 1..Len(LowerChars) : LowerChars[i] = c
    \/ c \in {CAPITAL_SIGMA, SMALL_SIGMA, FINAL_SIGMA}

\* characters with the Case_Ignorable property, among those the model uses
is_case_ignorable(c) == c \in {"'", "."}

\* case_ignorable_then_cased: the first character that is not case-ignorable
\* exists and is cased
RECURSIVE case_ignorable_then_cased(_)
case_ignorable_then_cased(chars) ==
    IF chars = <<>> THEN FALSE
    ELSE IF is_case_ignorable(Head(chars)) THEN case_ignorable_then_cased(Tail(chars))
    ELSE is_cased(Head(chars))

Reverse(s) == [i \in 1..Len(s) |-> s[Len(s) + 1 - i]]

\* map_uppercase_sigma: a capital sigma becomes the final form when a cased
\* letter precedes it and none follows it
map_uppercase_sigma(from, i) ==
    IF /\ case_ignorable_then_cased(Reverse(SubSeq(from, 1, i - 1)))
       /\ ~case_ignorable_then_cased(SubSeq(from, i + 1, Len(from)))
    THEN FINAL_SIGMA
    ELSE SMALL_SIGMA

\* str::to_lowercase on the characters the model uses
to_lowercase(s) ==
    [i \in 1..Len(s) |->
        IF s[i] = CAPITAL_SIGMA THEN map_uppercase_sigma(s, i) ELSE to_ascii_lowercase(s[i])]

\* str::contains
contains(hay, needle) ==
    \E i \in 0..(Len(hay) - Len(needle)) : SubSeq(hay, i + 1, i + Len(needle)) = needle

(***************************************************************************)
(* SessionEvent: the variant identifiers of the enum, in declaration       *)
(* order, and the wire tag serde derives from each (rename_all =           *)
(* "snake_case": an underscore before every upper-case letter but the      *)
(* first, then the letter lower-cased).                                    *)
(***************************************************************************)
V_System == <<"S", "y", "s", "t", "e", "m">>
V_User == <<"U", "s", "e", "r">>
V_Assistant == <<"A", "s", "s", "i", "s", "t", "a", "n", "t">>
V_ToolUseSummary == <<"T", "o", "o", "l", "U", "s", "e", "S", "u", "m", "m", "a", "r", "y">>
V_ToolProgress == <<"T", "o", "o", "l", "P", "r", "o", "g", "r", "e", "s", "s">>
V_Result == <<"R", "e", "s", "u", "l", "t">>
V_ControlResponse == <<"C", "o", "n", "t", "r", "o", "l", "R", "e", "s", "p", "o", "n", "s", "e">>
V_EnvManagerLog == <<"E", "n", "v", "M", "a", "n", "a", "g", "e", "r", "L", "o", "g">>
V_Unknown == <<"U", "n", "k", "n", "o", "w", "n">>

\* the tagged (non-other) variants of SessionEvent, types.rs:119-126
FixedVariants == <<V_System, V_User, V_Assistant, V_ToolUseSummary, V_ToolProgress,
                   V_Result, V_ControlResponse, V_EnvManagerLog>>

RECURSIVE snake_from(_, _)
snake_from(ident, i) ==
    IF i > Len(ident) THEN <<>>
    ELSE (IF i > 1 /\ is_uppercase(ident[i]) THEN <<"_">> ELSE <<>>)
         \o <<to_ascii_lowercase(ident[i])>> \o snake_from(ident, i + 1)

snake_case(ident) == snake_from(ident, 1)

\* ContentBlock variants, types.rs:241-244
B_Thinking == <<"T", "h", "i", "n", "k", "i", "n", "g">>
B_Text == <<"T", "e", "x", "t">>
B_ToolUse == <<"T", "o", "o", "l", "U", "s", "e">>
B_ToolResult == <<"T", "o", "o", "l", "R", "e", "s", "u", "l", "t">>
B_Other == <<"O", "t", "h", "e", "r">>
BlockVariants == <<B_Thinking, B_Text, B_ToolUse, B_ToolResult>>

\* the variant a wire tag selects: the variant whose derived name equals the
\* tag, else the #[serde(other)] variant
VariantOfTag(tag, variants, other) ==
    IF \E i \in 1..Len(variants) : snake_case(variants[i]) = tag
    THEN variants[CHOOSE i \in 1..Len(variants) : snake_case(variants[i]) = tag]
    ELSE other

(***************************************************************************)
(* Deserialize, as derived by serde for the types of types.rs.  A struct   *)
(* ignores keys it does not know; an Option field is None when the key is  *)
(* missing or null and an error when the value has the wrong JSON kind; a  *)
(* field that is not an Option is an error when the key is missing.        *)
(***************************************************************************)
\* Option<String>
OptString(o, key) ==
    IF ~Has(o, key) \/ o[key].k = "null" THEN Ok(None)
    ELSE IF o[key].k = "str" THEN Ok(Some(o[key].s))
    ELSE Err("invalid type: expected a string")

\* Option<serde_json::Value>
OptValue(o, key) ==
    IF ~Has(o, key) \/ o[key].k = "null" THEN Ok(None) ELSE Ok(Some(o[key]))

\* the first error among results, if any
FirstErr(rs) == rs[CHOOSE i \in 1..Len(rs) : ~rs[i].ok /\ \A j \in 1..(i - 1) : rs[j].ok]
AllOk(rs) == \A i \in 1..Len(rs) : rs[i].ok

\* the tag of an internally tagged enum: the key must exist and be a string
TagOf(v) ==
    IF v.k # "obj" THEN Err("invalid type: expected internally tagged enum")
    ELSE IF ~Has(v.o, "type") THEN Err("missing field type")
    ELSE IF v.o["type"].k # "str" THEN Err("invalid type: expected variant identifier")
    ELSE Ok(v.o["type"].s)

\* ContentBlock without the #[serde(other)] variant
DecodeContentBlockStrict(v) ==
    LET tag == TagOf(v) IN
    IF ~tag.ok THEN tag
    ELSE IF \E i \in 1..Len(BlockVariants) : snake_case(BlockVariants[i]) = tag.val
         THEN Ok([variant |-> VariantOfTag(tag.val, BlockVariants, B_Other)])
         ELSE Err("unknown variant")

\* types.rs:238 ContentBlock
DecodeContentBlock(v) ==
    LET tag == TagOf(v) IN
    IF ~tag.ok THEN tag
    ELSE LET var == VariantOfTag(tag.val, BlockVariants, B_Other)
             o == v.o
         IN
         IF var = B_Thinking THEN
             LET t == OptString(o, "thinking") g == OptString(o, "signature") IN
             IF AllOk(<<t, g>>)
             THEN Ok([variant |-> var, thinking |-> t.val, signature |-> g.val])
             ELSE FirstErr(<<t, g>>)
         ELSE IF var = B_Text THEN
             LET t == OptString(o, "text") IN
             IF t.ok THEN Ok([variant |-> var, text |-> t.val]) ELSE t
         ELSE IF var = B_ToolUse THEN
             LET i == OptString(o, "id") n == OptString(o, "name") IN
             IF AllOk(<<i, n>>)
             THEN Ok([variant |-> var, id |-> i.val, name |-> n.val,
                      input |-> OptValue(o, "input").val])
             ELSE FirstErr(<<i, n>>)
         ELSE IF var = B_ToolResult THEN
             LET i == OptString(o, "tool_use_id") IN
             IF i.ok
             THEN Ok([variant |-> var, tool_use_id |-> i.val,
                      content |-> OptValue(o, "content").val])
             ELSE i
         ELSE Ok([variant |-> B_Other])

\* UserContent with the Text variant only
DecodeUserContentTextOnly(v) ==
    IF v.k = "str" THEN Ok([Text |-> v.s])
    ELSE Err("data did not match any variant of untagged enum UserContent")

\* types.rs:209 UserContent, #[serde(untagged)]: Text is tried first, then Blocks
DecodeUserContent(v) ==
    IF v.k = "str" THEN Ok([Text |-> v.s])
    ELSE IF v.k = "arr" THEN Ok([Blocks |-> v.a])
    ELSE Err("data did not match any variant of untagged enum UserContent")

\* UserContent::as_text, types.rs:214-221
as_text(content) ==
    IF Has(content, "Text") THEN Some(content.Text) ELSE None

\* types.rs:201 UserMessage: content is not an Option
DecodeUserMessage(v) ==
    IF v.k # "obj" THEN Err("invalid type: expected struct UserMessage")
    ELSE IF ~Has(v.o, "content") THEN Err("missing field content")
    ELSE LET r == OptString(v.o, "role") c == DecodeUserContent(v.o["content"]) IN
         IF AllOk(<<r, c>>) THEN Ok([role |-> r.val, content |-> c.val])
         ELSE FirstErr(<<r, c>>)

\* types.rs:232 AssistantMessage: content is a Vec<ContentBlock>, not an Option
DecodeAssistantMessage(v) ==
    IF v.k # "obj" THEN Err("invalid type: expected struct AssistantMessage")
    ELSE IF ~Has(v.o, "content") THEN Err("missing field content")
    ELSE IF v.o["content"].k # "arr" THEN Err("invalid type: expected a sequence")
    ELSE LET r == OptString(v.o, "role")
             bs == [i \in 1..Len(v.o["content"].a) |-> DecodeContentBlock(v.o["content"].a[i])]
         IN
         IF ~r.ok THEN r
         ELSE IF ~AllOk(bs) THEN FirstErr(bs)
         ELSE Ok([role |-> r.val, content |-> [Vec |-> [i \in 1..Len(bs) |-> bs[i].val]]])

\* types.rs:322 EnvManagerLogData, behind an Option
DecodeOptLogData(o, key) ==
    IF ~Has(o, key) \/ o[key].k = "null" THEN Ok(None)
    ELSE IF o[key].k # "obj" THEN Err("invalid type: expected struct EnvManagerLogData")
    ELSE LET c == OptString(o[key].o, "content") l == OptString(o[key].o, "level") IN
         IF AllOk(<<c, l>>) THEN Ok(Some([content |-> c.val, level |-> l.val]))
         ELSE FirstErr(<<c, l>>)

\* the payload struct of one tagged variant, types.rs:169-328
DecodeVariant(var, o) ==
    LET c == OptString(o, "created_at") IN
    IF ~c.ok THEN c
    ELSE IF var = V_System THEN
        LET s == OptString(o, "subtype") IN
        IF s.ok THEN Ok([variant |-> var, created_at |-> c.val, subtype |-> s.val]) ELSE s
    ELSE IF var = V_User THEN
        IF ~Has(o, "message") THEN Err("missing field message")
        ELSE LET m == DecodeUserMessage(o["message"]) IN
             IF m.ok THEN Ok([variant |-> var, created_at |-> c.val, message |-> m.val]) ELSE m
    ELSE IF var = V_Assistant THEN
        IF ~Has(o, "message") THEN Err("missing field message")
        ELSE LET m == DecodeAssistantMessage(o["message"]) IN
             IF m.ok THEN Ok([variant |-> var, created_at |-> c.val, message |-> m.val]) ELSE m
    ELSE IF var = V_ToolUseSummary THEN
        LET s == OptString(o, "summary") IN
        IF s.ok THEN Ok([variant |-> var, created_at |-> c.val, summary |-> s.val]) ELSE s
    ELSE IF var = V_ToolProgress THEN
        LET s == OptString(o, "tool_name") IN
        IF s.ok THEN Ok([variant |-> var, created_at |-> c.val, tool_name |-> s.val]) ELSE s
    ELSE IF var = V_EnvManagerLog THEN
        LET d == DecodeOptLogData(o, "data") IN
        IF d.ok THEN Ok([variant |-> var, created_at |-> c.val, data |-> d.val]) ELSE d
    ELSE Ok([variant |-> var, created_at |-> c.val])

\* types.rs:116 SessionEvent, #[serde(tag = "type", rename_all = "snake_case")]
\* with #[serde(other)] Unknown
DecodeEventStrict(v) ==
    LET tag == TagOf(v) IN
    IF ~tag.ok THEN tag
    ELSE IF \E i \in 1..Len(FixedVariants) : snake_case(FixedVariants[i]) = tag.val
         THEN DecodeVariant(VariantOfTag(tag.val, FixedVariants, V_Unknown), v.o)
         ELSE Err("unknown variant")

DecodeEvent(v) ==
    LET tag == TagOf(v) IN
    IF ~tag.ok THEN tag
    ELSE LET var == VariantOfTag(tag.val, FixedVariants, V_Unknown) IN
         IF var = V_Unknown THEN Ok([variant |-> V_Unknown])
         ELSE DecodeVariant(var, v.o)

(***************************************************************************)
(* impl SessionEvent, types.rs:132-167.                                    *)
(***************************************************************************)
event_type_swapped(e) ==
    IF e.variant = V_System THEN <<"s", "y", "s", "t", "e", "m">>
    ELSE IF e.variant = V_User THEN <<"u", "s", "e", "r">>
    ELSE IF e.variant = V_Assistant THEN <<"a", "s", "s", "i", "s", "t", "a", "n", "t">>
    ELSE IF e.variant = V_ToolUseSummary THEN <<"t", "o", "o", "l", "_", "p", "r", "o", "g", "r", "e", "s", "s">>
    ELSE IF e.variant = V_ToolProgress THEN <<"t", "o", "o", "l", "_", "u", "s", "e", "_", "s", "u", "m", "m", "a", "r", "y">>
    ELSE IF e.variant = V_Result THEN <<"r", "e", "s", "u", "l", "t">>
    ELSE IF e.variant = V_ControlResponse THEN <<"c", "o", "n", "t", "r", "o", "l", "_", "r", "e", "s", "p", "o", "n", "s", "e">>
    ELSE IF e.variant = V_EnvManagerLog THEN <<"e", "n", "v", "_", "m", "a", "n", "a", "g", "e", "r", "_", "l", "o", "g">>
    ELSE <<"u", "n", "k", "n", "o", "w", "n">>

event_type(e) ==
    IF e.variant = V_System THEN <<"s", "y", "s", "t", "e", "m">>
    ELSE IF e.variant = V_User THEN <<"u", "s", "e", "r">>
    ELSE IF e.variant = V_Assistant THEN <<"a", "s", "s", "i", "s", "t", "a", "n", "t">>
    ELSE IF e.variant = V_ToolUseSummary THEN <<"t", "o", "o", "l", "_", "u", "s", "e", "_", "s", "u", "m", "m", "a", "r", "y">>
    ELSE IF e.variant = V_ToolProgress THEN <<"t", "o", "o", "l", "_", "p", "r", "o", "g", "r", "e", "s", "s">>
    ELSE IF e.variant = V_Result THEN <<"r", "e", "s", "u", "l", "t">>
    ELSE IF e.variant = V_ControlResponse THEN <<"c", "o", "n", "t", "r", "o", "l", "_", "r", "e", "s", "p", "o", "n", "s", "e">>
    ELSE IF e.variant = V_EnvManagerLog THEN <<"e", "n", "v", "_", "m", "a", "n", "a", "g", "e", "r", "_", "l", "o", "g">>
    ELSE <<"u", "n", "k", "n", "o", "w", "n">>

created_at(e) == IF e.variant = V_Unknown THEN None ELSE e.created_at

is_conversation_without_result(e) == e.variant \in {V_System, V_User, V_Assistant}

is_conversation(e) == e.variant \in {V_System, V_User, V_Assistant, V_Result}

(***************************************************************************)
(* Serialize, as derived by serde: the tag first, then every field of the  *)
(* payload struct; None is written as null.                                *)
(***************************************************************************)
EncOptString(x) == IF x = None THEN JNull ELSE JStr(x[1])
EncOptValue(x) == IF x = None THEN JNull ELSE x[1]

Tagged(var, fields) == JObj([type |-> JStr(snake_case(var))] @@ fields)

EncodeContentBlock(b) ==
    IF b.variant = B_Thinking
    THEN Tagged(b.variant, [thinking |-> EncOptString(b.thinking),
                            signature |-> EncOptString(b.signature)])
    ELSE IF b.variant = B_Text THEN Tagged(b.variant, [text |-> EncOptString(b.text)])
    ELSE IF b.variant = B_ToolUse
    THEN Tagged(b.variant, [id |-> EncOptString(b.id), name |-> EncOptString(b.name),
                            input |-> EncOptValue(b.input)])
    ELSE IF b.variant = B_ToolResult
    THEN Tagged(b.variant, [tool_use_id |-> EncOptString(b.tool_use_id),
                            content |-> EncOptValue(b.content)])
    ELSE Tagged(b.variant, <<>>)

EncodeUserContent(c) == IF Has(c, "Text") THEN JStr(c.Text) ELSE JArr(c.Blocks)

EncodeEvent(e) ==
    LET c == [created_at |-> EncOptString(created_at(e))] IN
    IF e.variant = V_Unknown THEN Tagged(e.variant, <<>>)
    ELSE IF e.variant = V_System
    THEN Tagged(e.variant, c @@ [subtype |-> EncOptString(e.subtype)])
    ELSE IF e.variant = V_User
    THEN Tagged(e.variant, c @@ [message |->
             JObj([role |-> EncOptString(e.message.role),
                   content |-> EncodeUserContent(e.message.content)])])
    ELSE IF e.variant = V_Assistant
    THEN Tagged(e.variant, c @@ [message |->
             JObj([role |-> EncOptString(e.message.role),
                   content |-> JArr([i \in 1..Len(e.message.content.Vec) |->
                                        EncodeContentBlock(e.message.content.Vec[i])])])])
    ELSE IF e.variant = V_ToolUseSummary
    THEN Tagged(e.variant, c @@ [summary |-> EncOptString(e.summary)])
    ELSE IF e.variant = V_ToolProgress
    THEN Tagged(e.variant, c @@ [tool_name |-> EncOptString(e.tool_name)])
    ELSE IF e.variant = V_EnvManagerLog
    THEN Tagged(e.variant, c @@ [data |->
             IF e.data = None THEN JNull
             ELSE JObj([content |-> EncOptString(e.data[1].content),
                        level |-> EncOptString(e.data[1].level)])])
    ELSE Tagged(e.variant, c)

(***************************************************************************)
(* Inputs of the decode pipeline: JSON objects assembled from an optional  *)
(* type key, an optional created_at, an optional message and one further   *)
(* key.                                                                    *)
(***************************************************************************)
\* the eight wire tags of the API (spec section 3)
WireTags == {<<"s", "y", "s", "t", "e", "m">>,
             <<"u", "s", "e", "r">>,
             <<"a", "s", "s", "i", "s", "t", "a", "n", "t">>,
             <<"t", "o", "o", "l", "_", "u", "s", "e", "_", "s", "u", "m", "m", "a", "r", "y">>,
             <<"t", "o", "o", "l", "_", "p", "r", "o", "g", "r", "e", "s", "s">>,
             <<"r", "e", "s", "u", "l", "t">>,
             <<"c", "o", "n", "t", "r", "o", "l", "_", "r", "e", "s", "p", "o", "n", "s", "e">>,
             <<"e", "n", "v", "_", "m", "a", "n", "a", "g", "e", "r", "_", "l", "o", "g">>}

OtherTags == {<<"u", "n", "k", "n", "o", "w", "n">>,
              <<"U", "s", "e", "r">>,
              <<"f", "u", "t", "u", "r", "e">>,
              <<"t", "o", "o", "l", "_", "u", "s", "e">>, <<>>}

T_hi == <<"H", "i">>
T_ts == <<"2", "0", "2", "5">>
T_init == <<"i", "n", "i", "t">>

NoKey == <<>>

TypeOpts == {NoKey, [type |-> JNum(5)], [type |-> JNull]}
            \cup {[type |-> JStr(t)] : t \in WireTags \cup OtherTags}

CreatedOpts == {NoKey, [created_at |-> JNull], [created_at |-> JStr(T_ts)],
                [created_at |-> JNum(1)]}

MessageOpts ==
    {NoKey,
     [message |-> JNull],
     [message |-> JObj(NoKey)],
     [message |-> JObj([content |-> JNum(1)])],
     [message |-> JObj([content |-> JStr(T_hi)])],
     [message |-> JObj([role |-> JStr(<<"u", "s", "e", "r">>), content |-> JArr(<<>>)])],
     [message |-> JObj([content |-> JArr(<<JObj([type |-> JStr(<<"t", "e", "x", "t">>),
                                                 text |-> JStr(T_hi)])>>)])],
     [message |-> JObj([content |-> JArr(<<JObj([type |-> JStr(<<"r", "e", "d", "a", "c", "t", "e", "d">>)]),
                                           JObj([type |-> JStr(<<"t", "o", "o", "l", "_", "u", "s", "e">>),
                                                 name |-> JStr(<<"B", "a", "s", "h">>)])>>)])],
     [message |-> JObj([content |-> JArr(<<JObj(NoKey)>>)])]}

ExtraOpts == {NoKey,
              [some_field |-> JStr(T_hi)],
              [subtype |-> JStr(T_init)],
              [subtype |-> JNum(1)],
              [summary |-> JStr(T_hi)],
              [data |-> JObj([content |-> JStr(T_hi)])]}

RawEvents == {JObj(t @@ c @@ m @@ x) :
                 t \in TypeOpts, c \in CreatedOpts, m \in MessageOpts, x \in ExtraOpts}

(***************************************************************************)
(* Inputs of session-ID validation.                                        *)
(***************************************************************************)
IdPrefixes == {<<>>, <<"s", "e", "s", "_">>, <<"s", "e", "s", "s", "i", "o", "n">>, <<"S", "e", "s", "s", "i", "o", "n", "_">>, SESSION_PREFIX}
IdChars == {"0", "U+00E9"}
IdSuffixes == UNION {[1..n -> IdChars] : n \in 0..MaxSuffixLen}
ValidateIds == {p \o x : p \in IdPrefixes, x \in IdSuffixes}

ID_OK == <<"s", "e", "s", "s", "i", "o", "n", "_", "0", "1", "Q", "J", "a", "J", "S", "U">>
ID_SHORT == <<"s", "e", "s", "s", "i", "o", "n", "_", "0", "1">>
ID_PREFIX == <<"s", "e", "s", "_", "0", "1", "Q", "J", "a", "J", "S", "U", "g", "f", "Y", "6">>
SessionIds == {ID_OK, ID_SHORT, ID_PREFIX, <<>>}

(***************************************************************************)
(* Errors (anyhow): the message kind and the values formatted into it.     *)
(***************************************************************************)
MkErr(kind, sid, page, status, body) ==
    [kind |-> kind, session |-> sid, page |-> page, status |-> status, body |-> body]

(***************************************************************************)
(* Credentials, client.rs:196-267.                                         *)
(***************************************************************************)
Platforms == {"macos", "other"}
KeychainStates == {"command_failed", "no_entry", "bad_json", "ok"}
FileStates == {"missing", "unreadable", "bad_json", "ok"}
TOKEN_KEYCHAIN == "tok_keychain"
TOKEN_FILE == "tok_file"

\* the CLAUDE_CONFIG_DIR environment variable (unset, set to a string, set to
\* bytes that are not valid Unicode) and dirs::home_dir()
NOT_UNICODE == "/cfg-0xFF"
ConfigDirs == {None, Some("/cfg"), Some(NOT_UNICODE)}
HomeDirs == {None, Some("/home/u")}

\* std::env::var: Err when the variable is not present or not Unicode
env_var(value) ==
    IF value = None THEN Err("NotPresent")
    ELSE IF value[1] = NOT_UNICODE THEN Err("NotUnicode")
    ELSE Ok(value[1])

\* a path is the sequence of its components (PathBuf::join)
\* client.rs:196 credentials_file_path
credentials_file_path(config_dir, home) ==
    IF env_var(config_dir).ok THEN <<env_var(config_dir).val, ".credentials.json">>
    ELSE <<IF home # None THEN home[1] ELSE ".", ".claude", ".credentials.json">>

CredentialPaths == {credentials_file_path(c, h) : c \in ConfigDirs, h \in HomeDirs}

\* an error whose message has a path formatted into it
MkPathErr(kind, path) ==
    [kind |-> kind, session |-> None, page |-> None, status |-> None, body |-> None,
     path |-> Some(path)]

\* client.rs:215 load_credentials_from_keychain
load_credentials_from_keychain(keychain) ==
    IF keychain = "command_failed"
    THEN Err(MkErr("Failed to run 'security' command", None, None, None, None))
    ELSE IF keychain = "no_entry"
    THEN Err(MkErr("No Claude Code credentials found in macOS Keychain", None, None, None, None))
    ELSE IF keychain = "bad_json"
    THEN Err(MkErr("Failed to parse credentials JSON from Keychain", None, None, None, None))
    ELSE Ok(TOKEN_KEYCHAIN)

\* client.rs:207 load_credentials_from_file
load_credentials_from_file(file, path) ==
    IF file \in {"missing", "unreadable"}
    THEN Err(MkPathErr("Failed to read credentials from path", path))
    ELSE IF file = "bad_json"
    THEN Err(MkPathErr("Failed to parse credentials JSON from path", path))
    ELSE Ok(TOKEN_FILE)

\* client.rs:238 load_credentials
load_credentials_keychain_hard(platform, keychain, file, path) ==
    IF platform = "macos"
    THEN load_credentials_from_keychain(keychain)
    ELSE IF file # "missing"
    THEN load_credentials_from_file(file, path)
    ELSE Err(MkPathErr("No Claude Code credentials found at path", path))

load_credentials(platform, keychain, file, path) ==
    IF platform = "macos" /\ load_credentials_from_keychain(keychain).ok
    THEN load_credentials_from_keychain(keychain)
    ELSE IF file # "missing"
    THEN load_credentials_from_file(file, path)
    ELSE IF platform = "macos"
    THEN Err(MkPathErr("No Claude Code credentials found. Checked macOS Keychain and path",
                       path))
    ELSE Err(MkPathErr("No Claude Code credentials found at path", path))

\* the sources load_credentials consults, in order: the Keychain on macOS,
\* and the file (path.exists(), then the read) unless the Keychain answered
sources_consulted(platform, keychain) ==
    IF platform = "macos" /\ load_credentials_from_keychain(keychain).ok
    THEN <<"keychain">>
    ELSE (IF platform = "macos" THEN <<"keychain">> ELSE <<>>) \o <<"file">>

CredEnvs == [platform : Platforms, keychain : KeychainStates, file : FileStates,
             config_dir : ConfigDirs, home : HomeDirs]

(***************************************************************************)
(* HTTP responses the server side may give.                                *)
(***************************************************************************)
DigitChars == <<"0", "1", "2", "3", "4", "5", "6", "7", "8", "9">>

\* the cursor the server gives with its k-th page: the id of the last event
\* of that page, different from page to page
Cursor(k) == <<"c", DigitChars[k + 1]>>
C_1 == Cursor(1)
ErrStatuses == {401, 500}
ErrBodies == {"", "denied"}
ORG == "org-1"

\* the events of a page: a user message, an event of a type this client does
\* not know, and an object without a type key
RawPageEvents ==
    {JObj([type |-> JStr(<<"u", "s", "e", "r">>), message |-> JObj([content |-> JStr(T_hi)])]),
     JObj([type |-> JStr(<<"f", "u", "t", "u", "r", "e">>), some_field |-> JStr(T_hi)]),
     JObj(NoKey)}

RawPageData == UNION {[1..n -> RawPageEvents] : n \in 0..MaxPageLen}

\* 2xx bodies of the events endpoint
PageBodies ==
    {JStr(T_hi)} \cup
    {JObj(d @@ l @@ h) :
        d \in {NoKey} \cup {[data |-> JArr(es)] : es \in RawPageData},
        l \in {NoKey} \cup {[last_id |-> JStr(Cursor(k))] : k \in 1..MaxPages},
        h \in {NoKey, [has_more |-> JBool(TRUE)], [has_more |-> JBool(FALSE)]}}

\* Option<bool>
OptBool(o, key) ==
    IF ~Has(o, key) \/ o[key].k = "null" THEN Ok(None)
    ELSE IF o[key].k = "bool" THEN Ok(Some(o[key].b))
    ELSE Err("invalid type: expected a boolean")

\* types.rs:106 EventsResponse: data is a Vec<SessionEvent>, not an Option
DecodeEventsResponse(body) ==
    IF body.k # "obj" THEN Err("invalid type: expected struct EventsResponse")
    ELSE IF ~Has(body.o, "data") THEN Err("missing field data")
    ELSE IF body.o["data"].k # "arr" THEN Err("invalid type: expected a sequence")
    ELSE LET es == [i \in 1..Len(body.o["data"].a) |-> DecodeEvent(body.o["data"].a[i])]
             f == OptString(body.o, "first_id")
             l == OptString(body.o, "last_id")
             h == OptBool(body.o, "has_more")
         IN
         IF ~AllOk(es) THEN FirstErr(es)
         ELSE IF ~AllOk(<<f, l, h>>) THEN FirstErr(<<f, l, h>>)
         ELSE Ok([data |-> [i \in 1..Len(es) |-> es[i].val], first_id |-> f.val,
                  last_id |-> l.val, has_more |-> h.val])

(***************************************************************************)
(* Logline, types.rs:336-360: twelve mapped fields, each an Option, under   *)
(* their wire keys, and #[serde(flatten)] extra, which takes every other   *)
(* key of the object with its value.                                       *)
(***************************************************************************)
LoglineStringKeys == {"type", "subtype", "content", "timestamp", "gitBranch", "sessionId",
                      "cwd", "level", "slug"}
LoglineBoolKeys == {"isMeta", "isSidechain"}
LoglineValueKeys == {"compactMetadata"}
LoglineKeys == LoglineStringKeys \cup LoglineBoolKeys \cup LoglineValueKeys

\* the entries #[serde(flatten)] collects
Flatten(o, mapped) == [key \in (DOMAIN o) \ mapped |-> o[key]]

\* Logline with #[serde(deny_unknown_fields)] in place of the flattened map
DecodeLoglineDenyUnknown(v) ==
    IF v.k # "obj" THEN Err("invalid type: expected a map")
    ELSE IF (DOMAIN v.o) \ LoglineKeys # {} THEN Err("unknown field")
    ELSE Ok([extra |-> <<>>])

DecodeLogline(v) ==
    IF v.k # "obj" THEN Err("invalid type: expected a map")
    ELSE LET o == v.o
             t == OptString(o, "type")             st == OptString(o, "subtype")
             c == OptString(o, "content")          ts == OptString(o, "timestamp")
             g == OptString(o, "gitBranch")        sid == OptString(o, "sessionId")
             w == OptString(o, "cwd")              l == OptString(o, "level")
             m == OptBool(o, "isMeta")             sc == OptBool(o, "isSidechain")
             sl == OptString(o, "slug")
             all == <<t, st, c, ts, g, sid, w, l, m, sc, sl>>
         IN
         IF ~AllOk(all) THEN FirstErr(all)
         ELSE Ok([log_type |-> t.val, subtype |-> st.val, content |-> c.val,
                  timestamp |-> ts.val, git_branch |-> g.val, session_id |-> sid.val,
                  cwd |-> w.val, level |-> l.val, is_meta |-> m.val,
                  is_sidechain |-> sc.val, slug |-> sl.val,
                  compact_metadata |-> OptValue(o, "compactMetadata").val,
                  extra |-> Flatten(o, LoglineKeys)])

\* the objects of a loglines response: mapped keys with values of the right
\* and of the wrong kind, and keys Logline does not map (the Rust name of a
\* mapped field among them)
LoglineTypeOpts == {NoKey, [type |-> JStr(<<"u", "s", "e", "r">>)], [type |-> JNull],
                    [type |-> JNum(1)]}
LoglineMetaOpts == {NoKey, [isMeta |-> JBool(FALSE)], [isMeta |-> JStr(T_hi)]}
LoglineBranchOpts == {NoKey, [gitBranch |-> JStr(<<"m", "a", "i", "n">>)]}
LoglineCompactOpts == {NoKey, [compactMetadata |-> JObj([trigger |-> JStr(T_hi)])]}
LoglineUnknownOpts == {NoKey,
                       [unknownField |-> JStr(T_hi)],
                       [unknownField |-> JNull, uuid |-> JNum(1)],
                       [git_branch |-> JStr(<<"m", "a", "i", "n">>)],
                       [Type |-> JArr(<<JNum(1)>>), log_type |-> JBool(TRUE)]}
RawLoglines == {JObj(t @@ m @@ g @@ c @@ u) :
                   t \in LoglineTypeOpts, m \in LoglineMetaOpts, g \in LoglineBranchOpts,
                   c \in LoglineCompactOpts, u \in LoglineUnknownOpts}

\* the 2xx bodies resp.json() rejects, and the pages it yields from the others
UndecodableBodies == {body \in PageBodies : ~DecodeEventsResponse(body).ok}
DecodedPages == {DecodeEventsResponse(body).val : body \in PageBodies \ UndecodableBodies}

(***************************************************************************)
(* serde_json::to_string of a Value (compact form, keys in sorted order).  *)
(***************************************************************************)
KeyOrder == <<"command", "content", "name", "text", "type">>
KeyText == <<<<"c", "o", "m", "m", "a", "n", "d">>,
             <<"c", "o", "n", "t", "e", "n", "t">>,
             <<"n", "a", "m", "e">>,
             <<"t", "e", "x", "t">>,
             <<"t", "y", "p", "e">>>>
Quoted(chars) == <<"\"">> \o chars \o <<"\"">>

RECURSIVE JsonText(_)
RECURSIVE JoinTexts(_, _)
JoinTexts(vs, i) ==
    IF i > Len(vs) THEN <<>>
    ELSE (IF i > 1 THEN <<",">> ELSE <<>>) \o JsonText(vs[i]) \o JoinTexts(vs, i + 1)

RECURSIVE JoinMembers(_, _, _)
JoinMembers(o, i, first) ==
    IF i > Len(KeyOrder) THEN <<>>
    ELSE IF ~Has(o, KeyOrder[i]) THEN JoinMembers(o, i + 1, first)
    ELSE (IF first THEN <<>> ELSE <<",">>) \o Quoted(KeyText[i]) \o <<":">>
         \o JsonText(o[KeyOrder[i]]) \o JoinMembers(o, i + 1, FALSE)

JsonText(v) ==
    IF v.k = "null" THEN <<"n", "u", "l", "l">>
    ELSE IF v.k = "bool" THEN (IF v.b THEN <<"t", "r", "u", "e">> ELSE <<"f", "a", "l", "s", "e">>)
    ELSE IF v.k = "num" THEN <<DigitChars[v.n + 1]>>
    ELSE IF v.k = "str" THEN Quoted(v.s)
    ELSE IF v.k = "arr" THEN <<"[">> \o JoinTexts(v.a, 1) \o <<"]">>
    ELSE <<"{">> \o JoinMembers(v.o, 1, TRUE) \o <<"}">>

(***************************************************************************)
(* main.rs:98 event_contains_text                                          *)
(***************************************************************************)
SomeContains(x, needle_lower) == x # None /\ contains(to_lowercase(x[1]), needle_lower)
SomeJsonContains(x, needle_lower) ==
    x # None /\ contains(to_lowercase(JsonText(x[1])), needle_lower)

block_contains_text(block, needle_lower) ==
    IF block.variant = B_Text THEN SomeContains(block.text, needle_lower)
    ELSE IF block.variant = B_Thinking THEN SomeContains(block.thinking, needle_lower)
    ELSE IF block.variant = B_ToolUse
    THEN SomeContains(block.name, needle_lower) \/ SomeJsonContains(block.input, needle_lower)
    ELSE IF block.variant = B_ToolResult THEN SomeJsonContains(block.content, needle_lower)
    ELSE FALSE

event_contains_text(event, needle) ==
    LET needle_lower == to_lowercase(needle) IN
    IF event.variant = V_User
    THEN Has(event.message.content, "Text")
         /\ contains(to_lowercase(event.message.content.Text), needle_lower)
    ELSE IF event.variant = V_Assistant
    THEN \E i \in 1..Len(event.message.content.Vec) :
             block_contains_text(event.message.content.Vec[i], needle_lower)
    ELSE IF event.variant = V_ToolUseSummary THEN SomeContains(event.summary, needle_lower)
    ELSE IF event.variant = V_EnvManagerLog
    THEN event.data # None /\ SomeContains(event.data[1].content, needle_lower)
    ELSE IF event.variant = V_System THEN SomeContains(event.subtype, needle_lower)
    ELSE FALSE

\* the filter closure of cmd_read, main.rs:229-244
read_filter_without_type(e, type_filter, conversation_only, search) ==
    /\ ~conversation_only \/ is_conversation(e)
    /\ search = None \/ event_contains_text(e, search[1])

read_filter(e, type_filter, conversation_only, search) ==
    /\ type_filter = None \/ event_type(e) = type_filter[1]
    /\ ~conversation_only \/ is_conversation(e)
    /\ search = None \/ event_contains_text(e, search[1])

\* Iterator::filter(..).collect()
RECURSIVE Filter(_, _, _, _)
Filter(es, type_filter, conversation_only, search) ==
    IF es = <<>> THEN <<>>
    ELSE (IF read_filter(Head(es), type_filter, conversation_only, search)
          THEN <<Head(es)>> ELSE <<>>)
         \o Filter(Tail(es), type_filter, conversation_only, search)

TypeFilters == {None, Some(<<"u", "s", "e", "r">>), Some(<<"U", "s", "e", "r">>),
                Some(<<"u", "n", "k", "n", "o", "w", "n">>)}
Searches == {None, Some(<<"H", "I">>)}

(***************************************************************************)
(* Inputs of the filter of cmd_read and of event_contains_text: events as  *)
(* the decoder yields them from the JSON objects below.                    *)
(***************************************************************************)
MaxReadLen == 2     \* events handed to the filter of cmd_read

T_no == <<"n", "o">>
T_hI == <<"h", "I">>
T_HI == <<"H", "I">>
T_Bash == <<"B", "a", "s", "h">>
T_sigma == <<"i", CAPITAL_SIGMA>>
TagStr(t) == JStr(snake_case(t))

RawUser(content) == JObj([type |-> TagStr(V_User), message |-> JObj([content |-> content])])
RawAssistant(blocks) ==
    JObj([type |-> TagStr(V_Assistant), message |-> JObj([content |-> JArr(blocks)])])
RawTextBlock(t) == JObj([type |-> TagStr(B_Text), text |-> JStr(t)])

\* events with the needle-sized text on a surface the search reads
RawSurfaceEvents ==
    {RawUser(JStr(T_hi)),
     RawUser(JStr(T_sigma)),
     RawAssistant(<<RawTextBlock(T_hi)>>),
     RawAssistant(<<JObj([type |-> TagStr(B_Thinking), thinking |-> JStr(T_hI)])>>),
     RawAssistant(<<JObj([type |-> TagStr(B_ToolUse), name |-> JStr(T_hi)])>>),
     RawAssistant(<<JObj([type |-> TagStr(B_ToolUse), name |-> JStr(T_Bash),
                          input |-> JObj([command |-> JStr(T_hi)])])>>),
     RawAssistant(<<JObj([type |-> TagStr(B_ToolResult), content |-> JStr(T_hi)])>>),
     RawAssistant(<<JObj([type |-> TagStr(B_ToolResult),
                          content |-> JArr(<<RawTextBlock(T_HI)>>)])>>),
     RawAssistant(<<JObj([type |-> JStr(<<"r", "e", "d", "a", "c", "t", "e", "d">>)]),
                    RawTextBlock(T_hi)>>),
     JObj([type |-> TagStr(V_ToolUseSummary), summary |-> JStr(T_hi)]),
     JObj([type |-> TagStr(V_EnvManagerLog), data |-> JObj([content |-> JStr(T_HI)])]),
     JObj([type |-> TagStr(V_System), subtype |-> JStr(T_hi)])}

\* events that carry the same text where the search does not read, or none
RawSilentEvents ==
    {RawUser(JStr(T_no)),
     RawUser(JArr(<<RawTextBlock(T_hi)>>)),
     RawAssistant(<<>>),
     RawAssistant(<<JObj([type |-> JStr(<<"r", "e", "d", "a", "c", "t", "e", "d">>),
                          text |-> JStr(T_hi)])>>),
     RawAssistant(<<JObj([type |-> TagStr(B_Text)]),
                    JObj([type |-> TagStr(B_ToolUse), id |-> JStr(T_hi)])>>),
     JObj([type |-> TagStr(V_ToolUseSummary)]),
     JObj([type |-> TagStr(V_EnvManagerLog), data |-> JObj([level |-> JStr(T_hi)])]),
     JObj([type |-> TagStr(V_EnvManagerLog)]),
     JObj([type |-> TagStr(V_System)]),
     JObj([type |-> TagStr(V_ToolProgress), tool_name |-> JStr(T_hi)]),
     JObj([type |-> TagStr(V_Result), subtype |-> JStr(T_hi)]),
     JObj([type |-> TagStr(V_ControlResponse), subtype |-> JStr(T_hi)]),
     JObj([type |-> JStr(<<"f", "u", "t", "u", "r", "e">>), some_field |-> JStr(T_hi)])}

SearchEvents == {DecodeEvent(v).val : v \in RawSurfaceEvents \cup RawSilentEvents}

\* the events the filter of cmd_read is run on
ReadEvents ==
    {DecodeEvent(v).val : v \in
        {RawUser(JStr(T_hi)),
         RawUser(JStr(T_no)),
         RawAssistant(<<RawTextBlock(T_hi)>>),
         RawAssistant(<<>>),
         JObj([type |-> TagStr(V_ToolUseSummary), summary |-> JStr(T_hi)]),
         JObj([type |-> TagStr(V_Result)]),
         JObj([type |-> JStr(<<"f", "u", "t", "u", "r", "e">>)])}}

MaxNeedleLen == 2   \* longest needle searched for

NeedleChars == {"h", "H", "i", "I", "\"", CAPITAL_SIGMA}
Needles == UNION {[1..n -> NeedleChars] : n \in 0..MaxNeedleLen}

ReadArgs == [type_filter : TypeFilters, conversation_only : BOOLEAN, search : Searches]

(***************************************************************************)
(* Inputs of the decoding of message content: user events whose content is *)
(* any JSON value, assistant events whose content is a list of blocks.     *)
(***************************************************************************)
MaxBlocks == 2      \* longest content list of a message

T_empty == <<>>
T_signature == <<"s", "i", "g", "n", "a", "t", "u", "r", "e">>

\* content blocks with a known tag, and blocks with a tag ContentBlock does
\* not list (a field of a listed variant next to it, the tag of a listed
\* variant in another case, the empty tag)
KnownBlocks ==
    {RawTextBlock(T_hi),
     JObj([type |-> TagStr(B_ToolUse), name |-> JStr(T_Bash)])}
UnknownBlocks ==
    {JObj([type |-> JStr(T_signature), signature |-> JStr(T_hi)]),
     JObj([type |-> JStr(<<"f", "u", "t", "u", "r", "e">>), text |-> JNum(1)]),
     JObj([type |-> JStr(<<"T", "e", "x", "t">>)]),
     JObj([type |-> JStr(T_empty)])}
\* a text block whose text is not a string
BadBlock == JObj([type |-> TagStr(B_Text), text |-> JNum(1)])

BlockLists == UNION {[1..n -> KnownBlocks \cup UnknownBlocks \cup {BadBlock}] : n \in 0..MaxBlocks}
RawAssistantEvents == {RawAssistant(blocks) : blocks \in BlockLists}

\* the values a user message may hold as content
ContentItems == {JNull, JNum(1), JStr(T_hi), RawTextBlock(T_hi), JArr(<<>>)}
ContentValues ==
    {JStr(T_empty), JStr(T_hi), JNull, JNum(1), JBool(TRUE), JObj(NoKey)}
    \cup {JArr(items) : items \in UNION {[1..n -> ContentItems] : n \in 0..MaxBlocks}}
RawUserEvents == {RawUser(content) : content \in ContentValues}

(***************************************************************************)
(* Timestamps.  An instant is a number of half hours since                 *)
(* 2025-06-14T00:00:00Z; the parsers are given by what they return on the  *)
(* strings the model uses.                                                 *)
(***************************************************************************)
TS_NOON == "2025-06-14T12:00:00Z"
TS_OFFSET == "2025-06-15T02:00:00+02:00"
TS_LATE == "2025-06-15T14:30:00Z"
DATE_ONLY == "2025-06-15"
NOT_A_DATE == "not-a-date"

\* str::parse::<DateTime<Utc>>: an RFC 3339 date and time with an offset,
\* converted to UTC
ParseDateTimeUtc(str) ==
    IF str = TS_NOON THEN Ok(24)
    ELSE IF str = TS_OFFSET THEN Ok(48)
    ELSE IF str = TS_LATE THEN Ok(77)
    ELSE Err("input is not a date and time with an offset")

\* NaiveDate::parse_from_str(s, "%Y-%m-%d") and then midnight UTC
ParseNaiveDate(str) ==
    IF str = DATE_ONLY THEN Ok(48) ELSE Err("input is not a date")

\* main.rs:86 parse_date_filter
parse_date_filter(str) ==
    IF ParseDateTimeUtc(str).ok THEN ParseDateTimeUtc(str)
    ELSE IF ParseNaiveDate(str).ok THEN ParseNaiveDate(str)
    ELSE Err(MkErr("Invalid date format", None, None, None, None))

\* DateTime<Utc>::format("%Y-%m-%d %H:%M:%S UTC") of an instant
TwoDigits(n) == IF n < 10 THEN "0" \o ToString(n) ELSE ToString(n)
FormatUtc(instant) ==
    "2025-06-" \o TwoDigits(14 + instant \div 48) \o " " \o TwoDigits((instant % 48) \div 2)
        \o ":" \o TwoDigits(30 * (instant % 2)) \o ":00 UTC"

\* format_timestamp that gives nothing for what it cannot parse
format_timestamp_or_empty(ts) ==
    IF ParseDateTimeUtc(ts).ok THEN FormatUtc(ParseDateTimeUtc(ts).val) ELSE ""

\* display.rs:16 format_timestamp
format_timestamp(ts) ==
    IF ParseDateTimeUtc(ts).ok THEN FormatUtc(ParseDateTimeUtc(ts).val) ELSE ts

\* events of every variant with every timestamp: the message is one that
\* both UserMessage and AssistantMessage accept
TS_EMPTY == ""
NOT_A_TIMESTAMP == "not-a-timestamp"
Timestamps == {TS_NOON, TS_OFFSET, TS_LATE, DATE_ONLY, NOT_A_DATE, NOT_A_TIMESTAMP, TS_EMPTY}
TimestampOpts == {NoKey, [created_at |-> JNull]} \cup {[created_at |-> JStr(ts)] : ts \in Timestamps}
TimestampEvents ==
    {JObj([type |-> JStr(tag), message |-> JObj([content |-> JArr(<<>>)])] @@ c) :
        tag \in WireTags \cup {<<"f", "u", "t", "u", "r", "e">>}, c \in TimestampOpts}

\* Option::map(parse_date_filter).transpose()
ParseOptDate(x) ==
    IF x = None THEN Ok(None)
    ELSE IF parse_date_filter(x[1]).ok THEN Ok(Some(parse_date_filter(x[1]).val))
    ELSE parse_date_filter(x[1])

(***************************************************************************)
(* cmd_list, main.rs:153-204.                                              *)
(***************************************************************************)
MaxSessions == 2    \* sessions in the list the API returns

\* created_at.as_deref().and_then(|c| c.parse::<DateTime<Utc>>().ok()), main.rs:173-176
created_dt(s) ==
    IF s.created_at # None /\ ParseDateTimeUtc(s.created_at[1]).ok
    THEN Some(ParseDateTimeUtc(s.created_at[1]).val)
    ELSE None

\* the filter closure of cmd_list, main.rs:167-188
list_filter_requires_timestamp(s, status_filter, after_dt, before_dt) ==
    /\ status_filter = None \/ s.session_status = status_filter
    /\ (after_dt # None \/ before_dt # None) => created_dt(s) # None
    /\ ~(after_dt # None /\ created_dt(s) # None /\ created_dt(s)[1] < after_dt[1])
    /\ ~(before_dt # None /\ created_dt(s) # None /\ created_dt(s)[1] > before_dt[1])

list_filter(s, status_filter, after_dt, before_dt) ==
    /\ status_filter = None \/ s.session_status = status_filter
    /\ ~(after_dt # None /\ created_dt(s) # None /\ created_dt(s)[1] < after_dt[1])
    /\ ~(before_dt # None /\ created_dt(s) # None /\ created_dt(s)[1] > before_dt[1])

\* Iterator::filter(..) over the sessions
RECURSIVE FilterSessions(_, _, _, _)
FilterSessions(ss, status_filter, after_dt, before_dt) ==
    IF ss = <<>> THEN <<>>
    ELSE (IF list_filter(Head(ss), status_filter, after_dt, before_dt)
          THEN <<Head(ss)>> ELSE <<>>)
         \o FilterSessions(Tail(ss), status_filter, after_dt, before_dt)

\* Iterator::take
Take(seq, n) == IF n < Len(seq) THEN SubSeq(seq, 1, n) ELSE seq

S_RUNNING == "running"
S_IDLE == "idle"
SessionPool ==
    [session_status : {None, Some(S_RUNNING), Some(S_IDLE)},
     created_at : {None, Some(DATE_ONLY), Some(TS_NOON), Some(TS_LATE)}]
SessionLists == UNION {[1..n -> SessionPool] : n \in 0..MaxSessions}
DateArgs == {None, Some(DATE_ONLY), Some(TS_OFFSET), Some(NOT_A_DATE)}
ListArgs == [limit : {1, MaxSessions + 1}, status_filter : {None, Some(S_RUNNING)},
             after : DateArgs, before : DateArgs]

(***************************************************************************)
(* The command handlers of main.rs and the ApiClient of client.rs.  Each   *)
(* action is the code between two awaits of the running command.           *)
(***************************************************************************)
Cmds == {"show", "read", "summary", "loglines", "export"}

\* all_events.len() / 1000 + 1, client.rs:139
PageDivisor == 1000

\* client.rs:9-10
ANTHROPIC_VERSION == "2023-06-01"
ANTHROPIC_BETA == "ccr-byoc-2025-07-29"

\* format!("Bearer {}", token)
Bearer(token) == <<"Bearer ", token>>

\* HeaderValue::from_str accepts visible ASCII, space and tab; ORG_CTL
\* stands for a string that holds a control character
ORG_CTL == "org-1\n"
is_header_value(str) == str # ORG_CTL

\* ApiClient::headers, client.rs:50-67
headers_without_beta(client) ==
    IF ~is_header_value(client.access_token) \/ ~is_header_value(client.org_uuid)
    THEN Err(MkErr("failed to parse header value", None, None, None, None))
    ELSE Ok(("authorization" :> Bearer(client.access_token))
            @@ ("x-organization-uuid" :> client.org_uuid)
            @@ ("anthropic-version" :> ANTHROPIC_VERSION)
            @@ ("content-type" :> "application/json"))

headers(client) ==
    IF ~is_header_value(client.access_token) \/ ~is_header_value(client.org_uuid)
    THEN Err(MkErr("failed to parse header value", None, None, None, None))
    ELSE Ok(("authorization" :> Bearer(client.access_token))
            @@ ("x-organization-uuid" :> client.org_uuid)
            @@ ("anthropic-beta" :> ANTHROPIC_BETA)
            @@ ("anthropic-version" :> ANTHROPIC_VERSION)
            @@ ("content-type" :> "application/json"))

\* the two headers of the profile request, client.rs:273-274
profile_headers(token) ==
    ("authorization" :> Bearer(token)) @@ ("content-type" :> "application/json")

Request(ep, cursor, hdrs) == [ep |-> ep, after_id |-> cursor, headers |-> hdrs]

\* a response as the server sent it
Reply(ep, status, body) == [ep |-> ep, status |-> status, body |-> body]

\* resp.text().await.unwrap_or_default(): the body, or the empty string when
\* reading it failed
text_unwrap_or_default(body, readable) == IF readable THEN body ELSE ""

EventRequests(log) == Cardinality({i \in 1..Len(log) : log[i].ep = "events"})

\* the ? operator in a command: the error becomes the command's result
Fail(e) == cmd_result' = Some(Err(e)) /\ pc' = "exit"

\* the branch taken when the status is not 2xx, client.rs:79-83, 102-106,
\* 143-147, 182-186 and 279-283
Non2xx(ep, kind, sid) ==
    \E status \in ErrStatuses, body \in ErrBodies, readable \in BOOLEAN :
        /\ http_responses' = Append(http_responses, Reply(ep, status, body))
        /\ Fail(MkErr(kind, sid, None, Some(status),
                      Some(text_unwrap_or_default(body, readable))))

\* client.rs:156
\* the page put in front of the accumulator
extend_front(events, data) == data \o events

\* client.rs:152 all_events.extend(page.data)
extend(events, data) == events \o data

\* the cursor kept from the first id of the page
next_cursor_first_id(page) == page.first_id

\* client.rs:165 after_id = page.last_id
next_cursor(page) == page.last_id

cap_reached_any(max, events) == Len(events) >= max

cap_reached(max, events) == max > 0 /\ Len(events) >= max

\* Vec::truncate, client.rs:157
truncate_none(events, n) == events

truncate(events, n) == IF n < Len(events) THEN SubSeq(events, 1, n) ELSE events

\* client.rs:161
page_ends_without_cursor(page) == page.last_id = None

page_ends(page) == page.has_more # Some(TRUE)

\* validate_session_id(session_id)? at the head of cmd_show, cmd_read,
\* cmd_summary, cmd_loglines and cmd_export
ValidateAfterCredentials ==
    /\ pc = "start" /\ cmd \in Cmds
    /\ cred_calls' = cred_calls + 1
    /\ IF validate_session_id(session_id).ok
       THEN pc' = (IF cmd = "export" THEN "check_output" ELSE "new_client")
            /\ UNCHANGED cmd_result
       ELSE Fail(validate_session_id(session_id).err)
    /\ UNCHANGED <<cmd, session_id, max_events, access_token, api, session, net,
                   inflight, responses, http_responses, all_events, after_id, fetched,
                   last_page, ge_result, out, decVars, sideVars>>

Validate ==
    /\ pc = "start" /\ cmd \in Cmds
    /\ IF validate_session_id(session_id).ok
       THEN pc' = (IF cmd = "export" THEN "check_output" ELSE "new_client")
            /\ UNCHANGED cmd_result
       ELSE Fail(validate_session_id(session_id).err)
    /\ UNCHANGED <<cmd, session_id, max_events, cred_calls, access_token, api, session, net,
                   inflight, responses, http_responses, all_events, after_id, fetched,
                   last_page, ge_result, out, decVars, sideVars>>

\* cmd_export: the output directory must exist, main.rs:369-375
CheckOutput ==
    /\ pc = "check_output"
    /\ \E parent_exists \in BOOLEAN :
          IF parent_exists
          THEN pc' = "new_client" /\ UNCHANGED cmd_result
          ELSE Fail(MkErr("Output directory does not exist", None, None, None, None))
    /\ UNCHANGED <<cmd, session_id, max_events, cred_calls, access_token, api, session, net,
                   inflight, responses, http_responses, all_events, after_id, fetched,
                   last_page, ge_result, out, decVars, sideVars>>

\* cmd_list: the date arguments are parsed before anything else, main.rs:159-160
ListParseDates ==
    /\ pc = "start" /\ cmd = "list"
    /\ LET a == ParseOptDate(list_args.after)
           b == ParseOptDate(list_args.before)
       IN
       IF ~a.ok THEN Fail(a.err) /\ UNCHANGED list_dates
       ELSE IF ~b.ok THEN Fail(b.err) /\ UNCHANGED list_dates
       ELSE /\ list_dates' = Some([after_dt |-> a.val, before_dt |-> b.val])
            /\ pc' = "new_client"
            /\ UNCHANGED cmd_result
    /\ UNCHANGED <<cmd, session_id, max_events, cred_calls, access_token, api, session, net,
                   inflight, responses, http_responses, all_events, after_id, fetched,
                   last_page, ge_result, out, decVars, readVars, searchVars, credVars,
                   list_args, sessions>>

\* cmd_list after the client exists: ApiClient::list_sessions,
\* client.rs:69-90, then the filter, take(limit) and the printing,
\* main.rs:165-203
ListSessions ==
    /\ pc = "list_sessions"
    /\ IF ~headers(api[1]).ok
       THEN Fail(headers(api[1]).err) /\ UNCHANGED <<net, http_responses, sessions, out>>
       ELSE
       /\ net' = Append(net, Request("sessions", None, headers(api[1]).val))
       /\ \/ Fail(MkErr("Failed to connect to Anthropic API", None, None, None, None))
             /\ UNCHANGED <<http_responses, sessions, out>>
          \/ Non2xx("sessions", "Failed to list sessions", None)
             /\ UNCHANGED <<sessions, out>>
          \/ Fail(MkErr("Failed to parse sessions list response", None, None, None, None))
             /\ http_responses' = Append(http_responses, Reply("sessions", 200, "undecodable"))
             /\ UNCHANGED <<sessions, out>>
          \/ \E data \in SessionLists :
                /\ http_responses' = Append(http_responses, Reply("sessions", 200, "json"))
                /\ sessions' = Some(data)
                /\ out' = [total |-> Len(data),
                           rows |-> Take(FilterSessions(data, list_args.status_filter,
                                                        list_dates[1].after_dt,
                                                        list_dates[1].before_dt),
                                         list_args.limit)]
                /\ cmd_result' = Some(Ok("unit")) /\ pc' = "exit"
    /\ UNCHANGED <<cmd, session_id, max_events, cred_calls, access_token, api, session,
                   inflight, responses, all_events, after_id, fetched, last_page, ge_result,
                   decVars, readVars, searchVars, credVars, list_args, list_dates>>

\* ApiClient::new, first half: load_credentials()? and the reqwest client,
\* client.rs:32-39
LoadCredentials ==
    /\ pc = "new_client"
    /\ cred_calls' = cred_calls + 1
    /\ \E platform \in Platforms, keychain \in KeychainStates, file \in FileStates,
          path \in CredentialPaths :
          LET r == load_credentials(platform, keychain, file, path) IN
          IF r.ok
          THEN \/ access_token' = Some(r.val) /\ pc' = "fetch_org" /\ UNCHANGED cmd_result
               \/ Fail(MkErr("Failed to build HTTP client", None, None, None, None))
                  /\ UNCHANGED access_token
          ELSE Fail(r.err) /\ UNCHANGED access_token
    /\ UNCHANGED <<cmd, session_id, max_events, api, session, net,
                   inflight, responses, http_responses, all_events, after_id, fetched,
                   last_page, ge_result, out, decVars, sideVars>>

\* where the command goes once the client exists
AfterClient ==
    IF cmd = "list" THEN "list_sessions"
    ELSE IF cmd \in {"show", "summary", "export"} THEN "get_session"
    ELSE IF cmd = "read" THEN "ge_loop"
    ELSE "get_loglines"

\* the organization uuid a profile response may hold
OrgUuids == {ORG, ORG_CTL}

\* ApiClient::new, second half: fetch_org_uuid, client.rs:41-47 and 269-290
FetchOrgUuidWithoutBail ==
    /\ pc = "fetch_org"
    /\ net' = Append(net, Request("profile", None, profile_headers(access_token[1])))
    /\ \E uuid \in OrgUuids, status \in {200} \cup ErrStatuses :
          /\ http_responses' = Append(http_responses, Reply("profile", status, uuid))
          /\ api' = Some([access_token |-> access_token[1], org_uuid |-> uuid])
          /\ pc' = AfterClient
          /\ UNCHANGED cmd_result
    /\ UNCHANGED <<cmd, session_id, max_events, cred_calls, access_token, session,
                   inflight, responses, all_events, after_id, fetched, last_page, ge_result, out,
                   decVars, sideVars>>

FetchOrgUuid ==
    /\ pc = "fetch_org"
    /\ net' = Append(net, Request("profile", None, profile_headers(access_token[1])))
    /\ \/ Fail(MkErr("Failed to fetch profile", None, None, None, None))
          /\ UNCHANGED <<api, http_responses>>
       \/ Non2xx("profile", "Failed to fetch profile (token may be expired)", None)
          /\ UNCHANGED api
       \/ Fail(MkErr("Failed to parse profile response", None, None, None, None))
          /\ http_responses' = Append(http_responses, Reply("profile", 200, "undecodable"))
          /\ UNCHANGED api
       \/ \E uuid \in OrgUuids :
             /\ http_responses' = Append(http_responses, Reply("profile", 200, uuid))
             /\ api' = Some([access_token |-> access_token[1], org_uuid |-> uuid])
             /\ pc' = AfterClient
             /\ UNCHANGED cmd_result
    /\ UNCHANGED <<cmd, session_id, max_events, cred_calls, access_token, session,
                   inflight, responses, all_events, after_id, fetched, last_page, ge_result, out,
                   decVars, sideVars>>

\* ApiClient::get_session, client.rs:92-111, and what its caller does with
\* the session: cmd_show prints it, cmd_summary prints the header lines
GetSession ==
    /\ pc = "get_session"
    /\ IF ~headers(api[1]).ok
       THEN Fail(headers(api[1]).err) /\ UNCHANGED <<net, http_responses, session, out>>
       ELSE
       /\ net' = Append(net, Request("session", None, headers(api[1]).val))
       /\ \/ Fail(MkErr("Failed to fetch session", Some(session_id), None, None, None))
             /\ UNCHANGED <<http_responses, session, out>>
          \/ Non2xx("session", "Session not found", Some(session_id))
             /\ UNCHANGED <<session, out>>
          \/ Fail(MkErr("Failed to parse session response", Some(session_id), None, None, None))
             /\ http_responses' = Append(http_responses, Reply("session", 200, "undecodable"))
             /\ UNCHANGED <<session, out>>
          \/ /\ http_responses' = Append(http_responses, Reply("session", 200, "json"))
             /\ session' = Some([id |-> session_id])
             /\ IF cmd = "show"
                THEN out' = [detail |-> [id |-> session_id]]
                     /\ cmd_result' = Some(Ok("unit")) /\ pc' = "exit"
                ELSE out' = (IF cmd = "summary" THEN [header |-> TRUE] ELSE out)
                     /\ pc' = "ge_loop" /\ UNCHANGED cmd_result
    /\ UNCHANGED <<cmd, session_id, max_events, cred_calls, access_token, api,
                   inflight, responses, all_events, after_id, fetched, last_page, ge_result,
                   decVars, sideVars>>

\* cmd_loglines after the client exists: ApiClient::get_loglines,
\* client.rs:172-193, then the printing loop
GetLoglines ==
    /\ pc = "get_loglines"
    /\ IF ~headers(api[1]).ok
       THEN Fail(headers(api[1]).err) /\ UNCHANGED <<net, http_responses, out>>
       ELSE
       /\ net' = Append(net, Request("loglines", None, headers(api[1]).val))
       /\ \/ Fail(MkErr("Failed to fetch loglines for session", Some(session_id), None, None, None))
             /\ UNCHANGED <<http_responses, out>>
          \/ Non2xx("loglines", "Failed to fetch loglines for session: status - body",
                    Some(session_id))
             /\ UNCHANGED out
          \/ Fail(MkErr("Failed to parse loglines for session", Some(session_id), None, None, None))
             /\ http_responses' = Append(http_responses, Reply("loglines", 200, "undecodable"))
             /\ UNCHANGED out
          \/ \E n \in 0..1 :
                /\ http_responses' = Append(http_responses, Reply("loglines", 200, "json"))
                /\ out' = [loglines |-> n]
                /\ cmd_result' = Some(Ok("unit")) /\ pc' = "exit"
    /\ UNCHANGED <<cmd, session_id, max_events, cred_calls, access_token, api, session,
                   inflight, responses, all_events, after_id, fetched, last_page, ge_result,
                   decVars, sideVars>>

(***************************************************************************)
(* ApiClient::get_events, client.rs:113-170.                               *)
(***************************************************************************)
\* the head of the loop up to send(), client.rs:121-135; self.headers()? may
\* return before anything is sent
SendPageRequest ==
    /\ pc = "ge_loop"
    /\ EventRequests(net) < MaxPages
    /\ IF ~headers(api[1]).ok
       THEN /\ ge_result' = Some(Err(headers(api[1]).err))
            /\ Fail(headers(api[1]).err)
            /\ UNCHANGED <<net, inflight>>
       ELSE /\ net' = Append(net, Request("events", after_id, headers(api[1]).val))
            /\ inflight' = inflight + 1
            /\ pc' = "ge_await"
            /\ UNCHANGED <<cmd_result, ge_result>>
    /\ UNCHANGED <<cmd, session_id, max_events, cred_calls, access_token, api,
                   session, responses, http_responses, all_events, after_id, fetched,
                   last_page, out, decVars, sideVars>>

\* get_events returns Err and the calling command propagates it with ?
GeFail(answer, e) ==
    /\ responses' = Append(responses, answer)
    /\ ge_result' = Some(Err(e))
    /\ Fail(e)
    /\ inflight' = inflight - 1
    /\ UNCHANGED <<cmd, session_id, max_events, cred_calls, access_token, api, session, net,
                   all_events, after_id, fetched, last_page, out, decVars, sideVars>>

\* send() failed, client.rs:136-141
PageSendFailsRetry ==
    /\ pc = "ge_await"
    /\ pc' = "ge_loop"
    /\ responses' = Append(responses, "send_failed")
    /\ inflight' = inflight - 1
    /\ UNCHANGED <<cmd, session_id, max_events, cmd_result, cred_calls, access_token, api,
                   session, net, http_responses, all_events, after_id, fetched, last_page,
                   ge_result, out, decVars, sideVars>>

PageSendFails ==
    /\ pc = "ge_await"
    /\ GeFail("send_failed",
              MkErr("Failed to fetch events for session (page)", Some(session_id),
                    Some(Len(all_events) \div PageDivisor + 1), None, None))
    /\ UNCHANGED http_responses

\* a response whose status is not 2xx, client.rs:143-147
PageNon2xx ==
    /\ pc = "ge_await"
    /\ \E status \in ErrStatuses, body \in ErrBodies, readable \in BOOLEAN :
          /\ http_responses' = Append(http_responses, Reply("events", status, body))
          /\ GeFail("status",
                    MkErr("Failed to fetch events for session: status - body",
                          Some(session_id), None, Some(status),
                          Some(text_unwrap_or_default(body, readable))))

\* resp.json() failed, client.rs:149-151
PageParseFails ==
    /\ pc = "ge_await"
    /\ \E body \in UndecodableBodies :
          GeFail("undecodable",
                 MkErr("Failed to parse events response for session",
                          Some(session_id), None, None, None))
    /\ http_responses' = Append(http_responses, Reply("events", 200, "undecodable"))

\* the rest of the loop body once a page is decoded, client.rs:152-166, and
\* the return at client.rs:169
LoopBody(page) ==
    LET extended == extend(all_events, page.data) IN
    /\ last_page' = Some([has_more |-> page.has_more, last_id |-> page.last_id])
    /\ IF cap_reached(max_events, extended)
       THEN /\ all_events' = truncate(extended, max_events)
            /\ ge_result' = Some(Ok(truncate(extended, max_events)))
            /\ pc' = "tail"
            /\ UNCHANGED after_id
       ELSE IF page_ends(page)
       THEN /\ all_events' = extended
            /\ ge_result' = Some(Ok(extended))
            /\ pc' = "tail"
            /\ UNCHANGED after_id
       ELSE /\ all_events' = extended
            /\ after_id' = next_cursor(page)
            /\ pc' = "ge_loop"
            /\ UNCHANGED ge_result

\* a page was decoded
PageOk ==
    /\ pc = "ge_await"
    /\ \E page \in DecodedPages :
          /\ page.last_id \in {None, Some(Cursor(EventRequests(net)))}
          /\ fetched' = fetched \o page.data
          /\ LoopBody(page)
    /\ inflight' = inflight - 1
    /\ responses' = Append(responses, "page")
    /\ http_responses' = Append(http_responses, Reply("events", 200, "json"))
    /\ UNCHANGED <<cmd, session_id, max_events, cmd_result, cred_calls, access_token, api,
                   session, net, out, decVars, sideVars>>

(***************************************************************************)
(* The loop of get_events without the record of the traffic (net,          *)
(* responses, http_responses, fetched), so that a run of any length is a   *)
(* walk over finitely many states.  The server is any server: a page may   *)
(* be empty and may say has_more = true whatever came before; the cursor  *)
(* of a page is either absent or Cursor(1), which stands for any cursor.   *)
(* With max_events = 0 the accumulator is capped at MaxPages * MaxPageLen  *)
(* events.                                                                 *)
(***************************************************************************)
LoopSend ==
    /\ pc = "ge_loop"
    /\ headers(api[1]).ok
    /\ inflight' = inflight + 1
    /\ pc' = "ge_await"
    /\ UNCHANGED <<cmd, session_id, max_events, cmd_result, cred_calls, access_token, api,
                   session, net, responses, http_responses, all_events, after_id, fetched,
                   last_page, ge_result, out, decVars, sideVars>>

LoopPage ==
    /\ pc = "ge_await"
    /\ \E page \in DecodedPages :
          /\ page.last_id \in {None, Some(Cursor(1))}
          /\ Len(all_events) + Len(page.data) <= MaxPages * MaxPageLen
          /\ LoopBody(page)
    /\ inflight' = inflight - 1
    /\ UNCHANGED <<cmd, session_id, max_events, cmd_result, cred_calls, access_token, api,
                   session, net, responses, http_responses, fetched, out, decVars, sideVars>>

\* send() failed, the status was not 2xx or the body did not decode
LoopFails ==
    /\ pc = "ge_await"
    /\ \E e \in {MkErr("Failed to fetch events for session (page)", Some(session_id),
                        Some(Len(all_events) \div PageDivisor + 1), None, None),
                  MkErr("Failed to parse events response for session",
                        Some(session_id), None, None, None)} :
          /\ ge_result' = Some(Err(e))
          /\ Fail(e)
    /\ inflight' = inflight - 1
    /\ UNCHANGED <<cmd, session_id, max_events, cred_calls, access_token, api, session, net,
                   responses, http_responses, all_events, after_id, fetched, last_page, out,
                   decVars, sideVars>>

(***************************************************************************)
(* What each command does with the events, main.rs.                        *)
(***************************************************************************)
\* cmd_read, main.rs:227-265
ReadTail ==
    /\ pc = "tail" /\ cmd = "read"
    /\ \E type_filter \in TypeFilters, conversation_only \in BOOLEAN, search \in Searches :
          out' = [transcript |-> Filter(ge_result[1].val, type_filter, conversation_only, search)]
    /\ cmd_result' = Some(Ok("unit"))
    /\ pc' = "exit"
    /\ UNCHANGED <<cmd, session_id, max_events, cred_calls, access_token, api, session, net,
                   inflight, responses, http_responses, all_events, after_id, fetched, last_page, ge_result, decVars, sideVars>>

\* cmd_summary, main.rs:284-342
SummaryTail ==
    /\ pc = "tail" /\ cmd = "summary"
    /\ LET events == ge_result[1].val IN
       out' = [header |-> TRUE,
               total_events |-> Len(events),
               user_messages |-> Cardinality({i \in 1..Len(events) :
                                     /\ events[i].variant = V_User
                                     /\ Has(events[i].message.content, "Text")})]
    /\ cmd_result' = Some(Ok("unit"))
    /\ pc' = "exit"
    /\ UNCHANGED <<cmd, session_id, max_events, cred_calls, access_token, api, session, net,
                   inflight, responses, http_responses, all_events, after_id, fetched, last_page, ge_result, decVars, sideVars>>

\* cmd_export writing what it has when the command ends, failed or not
ExportWriteOnExit ==
    /\ cmd = "export" /\ out = <<>>
    /\ pc \in {"tail", "exit"}
    /\ out' = [file |-> [session |-> session,
                         events |-> [i \in 1..Len(all_events) |-> EncodeEvent(all_events[i])],
                         total_events |-> Len(all_events)]]
    /\ cmd_result' = (IF pc = "tail" THEN Some(Ok("unit")) ELSE cmd_result)
    /\ pc' = "exit"
    /\ UNCHANGED <<cmd, session_id, max_events, cred_calls, access_token, api, session, net,
                   inflight, responses, http_responses, all_events, after_id, fetched, last_page, ge_result, decVars, sideVars>>

\* cmd_export, main.rs:385-400; std::fs::write creates or truncates the file
\* and then writes, so a failed write may leave the file touched
ExportWrite ==
    /\ pc = "tail" /\ cmd = "export"
    /\ \E write_ok \in BOOLEAN :
          IF write_ok
          THEN /\ LET events == ge_result[1].val IN
                  out' = [file |-> [session |-> session[1],
                                    events |-> [i \in 1..Len(events) |-> EncodeEvent(events[i])],
                                    total_events |-> Len(events)]]
               /\ cmd_result' = Some(Ok("unit"))
               /\ pc' = "exit"
          ELSE /\ Fail(MkErr("Failed to write export", None, None, None, None))
               /\ \E created \in BOOLEAN :
                     out' = (IF created THEN [partial_file |-> TRUE] ELSE out)
    /\ UNCHANGED <<cmd, session_id, max_events, cred_calls, access_token, api, session, net,
                   inflight, responses, http_responses, all_events, after_id, fetched, last_page, ge_result, decVars, sideVars>>

\* the filter of cmd_read on its own, main.rs:227-245
ReadFilter ==
    /\ filtered = None
    /\ filtered' = Some(Filter(read_events, read_args.type_filter,
                               read_args.conversation_only, read_args.search))
    /\ UNCHANGED <<read_events, read_args, cmdVars, decVars, searchVars, listVars,
                   credVars>>

\* one call of event_contains_text, main.rs:98-149
Search ==
    /\ found = None
    /\ found' = Some(event_contains_text(search_event, search_needle))
    /\ UNCHANGED <<search_event, search_needle, cmdVars, decVars, readVars, listVars,
                   credVars>>

\* one call of load_credentials, client.rs:238-267
ResolveCredentials ==
    /\ cred_result = None
    /\ cred_result' = Some(load_credentials(cred_env.platform, cred_env.keychain, cred_env.file,
                                            credentials_file_path(cred_env.config_dir,
                                                                  cred_env.home)))
    /\ cred_log' = sources_consulted(cred_env.platform, cred_env.keychain)
    /\ cred_path' = Some(credentials_file_path(cred_env.config_dir, cred_env.home))
    /\ UNCHANGED <<cred_env, cmdVars, decVars, readVars, searchVars, listVars>>

(***************************************************************************)
(* The decode pipeline: serde_json::from_value::<SessionEvent>, to_string   *)
(* and from_str again (types.rs:890-892).                                  *)
(***************************************************************************)
Decode ==
    /\ decoded = None
    /\ raw.k = "obj"
    /\ decoded' = Some(DecodeEvent(raw))
    /\ UNCHANGED <<raw, encoded, redecoded, cmdVars, sideVars>>

Encode ==
    /\ decoded # None /\ decoded[1].ok
    /\ encoded = None
    /\ encoded' = Some(EncodeEvent(decoded[1].val))
    /\ UNCHANGED <<raw, decoded, redecoded, cmdVars, sideVars>>

Redecode ==
    /\ encoded # None
    /\ redecoded = None
    /\ redecoded' = Some(DecodeEvent(encoded[1]))
    /\ UNCHANGED <<raw, decoded, encoded, cmdVars, sideVars>>

\* serde_json::from_value::<Logline>, types.rs:845 and 857
LoglineFromValue ==
    /\ decoded = None
    /\ decoded' = Some(DecodeLogline(raw))
    /\ UNCHANGED <<raw, encoded, redecoded, cmdVars, sideVars>>

\* print_event, display.rs:143-144: the timestamp column of an event
PrintEventCreated ==
    /\ decoded # None /\ decoded[1].ok
    /\ out = <<>>
    /\ out' = [created |-> IF created_at(decoded[1].val) = None THEN ""
                            ELSE format_timestamp(created_at(decoded[1].val)[1])]
    /\ UNCHANGED <<cmd, session_id, max_events, pc, cmd_result, cred_calls, access_token,
                   api, session, net, inflight, responses, http_responses, all_events,
                   after_id, fetched, last_page, ge_result, decVars, sideVars>>

(***************************************************************************)
(* Specifications.                                                         *)
(***************************************************************************)
IdleDecode == raw = JNull /\ decoded = None /\ encoded = None /\ redecoded = None

IdleRead == read_events = <<>> /\ read_args = <<>> /\ filtered = None

IdleSearch == search_event = <<>> /\ search_needle = <<>> /\ found = None

IdleList == list_args = <<>> /\ list_dates = None /\ sessions = None

IdleCreds == cred_env = <<>> /\ cred_log = <<>> /\ cred_path = None /\ cred_result = None

IdleSide == IdleRead /\ IdleSearch /\ IdleList /\ IdleCreds

StartCmd ==
    /\ pc = "start"
    /\ cmd_result = None
    /\ cred_calls = 0
    /\ access_token = None
    /\ api = None
    /\ session = None
    /\ net = <<>>
    /\ inflight = 0
    /\ responses = <<>>
    /\ http_responses = <<>>
    /\ all_events = <<>>
    /\ after_id = None
    /\ fetched = <<>>
    /\ last_page = None
    /\ ge_result = None
    /\ out = <<>>

\* the list command without any filter
PlainList == [limit |-> MaxSessions + 1, status_filter |-> None, after |-> None,
              before |-> None]

\* one invocation of a command: one that takes a session ID, or list
Init ==
    /\ \/ /\ cmd \in Cmds
          /\ session_id \in SessionIds
          /\ max_events \in (IF cmd = "read" THEN 0..MaxCap ELSE {0})
          /\ list_args = <<>>
       \/ /\ cmd = "list"
          /\ session_id = <<>>
          /\ max_events = 0
          /\ list_args = PlainList
    /\ list_dates = None
    /\ sessions = None
    /\ StartCmd
    /\ IdleDecode
    /\ IdleRead
    /\ IdleSearch
    /\ IdleCreds

Next ==
    \/ Validate
    \/ CheckOutput
    \/ ListParseDates
    \/ ListSessions
    \/ LoadCredentials
    \/ FetchOrgUuid
    \/ GetSession
    \/ GetLoglines
    \/ SendPageRequest
    \/ PageSendFails
    \/ PageNon2xx
    \/ PageParseFails
    \/ PageOk
    \/ ReadTail
    \/ SummaryTail
    \/ ExportWrite

Spec == Init /\ [][Next]_vars

\* session-ID validation over the enumerated IDs
InitValidate ==
    /\ cmd \in {"show", "export"}
    /\ session_id \in ValidateIds
    /\ max_events = 0
    /\ StartCmd
    /\ IdleDecode
    /\ IdleSide

NextValidate == Validate

SpecValidate == InitValidate /\ [][NextValidate]_vars

\* the decode pipeline over the enumerated JSON objects
InitDecode ==
    /\ raw \in RawEvents
    /\ decoded = None /\ encoded = None /\ redecoded = None
    /\ cmd = "none"
    /\ session_id = <<>>
    /\ max_events = 0
    /\ StartCmd
    /\ IdleSide

NextDecode == Decode \/ Encode \/ Redecode

SpecDecode == InitDecode /\ [][NextDecode]_vars

\* the filter of cmd_read over the enumerated events and arguments
InitRead ==
    /\ read_events \in UNION {[1..n -> ReadEvents] : n \in 0..MaxReadLen}
    /\ read_args \in ReadArgs
    /\ filtered = None
    /\ cmd = "read"
    /\ session_id = ID_OK
    /\ max_events = 0
    /\ StartCmd
    /\ IdleDecode
    /\ IdleSearch
    /\ IdleList
    /\ IdleCreds

NextRead == ReadFilter

SpecRead == InitRead /\ [][NextRead]_vars

\* event_contains_text over the enumerated events and needles
InitSearch ==
    /\ search_event \in SearchEvents
    /\ search_needle \in Needles
    /\ found = None
    /\ cmd = "read"
    /\ session_id = ID_OK
    /\ max_events = 0
    /\ StartCmd
    /\ IdleDecode
    /\ IdleRead
    /\ IdleList
    /\ IdleCreds

NextSearch == Search

SpecSearch == InitSearch /\ [][NextSearch]_vars

\* one invocation of the list command
InitList ==
    /\ cmd = "list"
    /\ list_args \in ListArgs
    /\ list_dates = None
    /\ sessions = None
    /\ session_id = <<>>
    /\ max_events = 0
    /\ StartCmd
    /\ IdleDecode
    /\ IdleRead
    /\ IdleSearch
    /\ IdleCreds

NextList == ListParseDates \/ LoadCredentials \/ FetchOrgUuid \/ ListSessions

SpecList == InitList /\ [][NextList]_vars

\* load_credentials over every state of the Keychain, the environment and
\* the credentials file
InitCreds ==
    /\ cred_env \in CredEnvs
    /\ cred_log = <<>>
    /\ cred_path = None
    /\ cred_result = None
    /\ cmd = "none"
    /\ session_id = <<>>
    /\ max_events = 0
    /\ StartCmd
    /\ IdleDecode
    /\ IdleRead
    /\ IdleSearch
    /\ IdleList

NextCreds == ResolveCredentials

SpecCreds == InitCreds /\ [][NextCreds]_vars

\* the decode pipeline over user events with every content value
InitContent ==
    /\ raw \in RawUserEvents
    /\ decoded = None /\ encoded = None /\ redecoded = None
    /\ cmd = "none"
    /\ session_id = <<>>
    /\ max_events = 0
    /\ StartCmd
    /\ IdleSide

SpecContent == InitContent /\ [][NextDecode]_vars

\* the decode pipeline over assistant events with every list of blocks
InitBlocks ==
    /\ raw \in RawAssistantEvents
    /\ decoded = None /\ encoded = None /\ redecoded = None
    /\ cmd = "none"
    /\ session_id = <<>>
    /\ max_events = 0
    /\ StartCmd
    /\ IdleSide

SpecBlocks == InitBlocks /\ [][NextDecode]_vars

\* the decoding of a Logline over the enumerated objects
InitLogline ==
    /\ raw \in RawLoglines
    /\ decoded = None /\ encoded = None /\ redecoded = None
    /\ cmd = "none"
    /\ session_id = <<>>
    /\ max_events = 0
    /\ StartCmd
    /\ IdleSide

NextLogline == LoglineFromValue

SpecLogline == InitLogline /\ [][NextLogline]_vars

\* decoding and printing the timestamp of events of every variant
InitTimestamp ==
    /\ raw \in TimestampEvents
    /\ decoded = None /\ encoded = None /\ redecoded = None
    /\ cmd = "none"
    /\ session_id = <<>>
    /\ max_events = 0
    /\ StartCmd
    /\ IdleSide

NextTimestamp == Decode \/ PrintEventCreated

SpecTimestamp == InitTimestamp /\ [][NextTimestamp]_vars

\* get_events entered by cmd_read with a client, against any server.  The
\* runtime polls the future until it completes and every request ends within
\* REQUEST_TIMEOUT (client.rs:36), so a step that can be taken is taken.
InitLoop ==
    /\ cmd = "read"
    /\ session_id = ID_OK
    /\ max_events \in 0..MaxCap
    /\ pc = "ge_loop"
    /\ cmd_result = None
    /\ cred_calls = 1
    /\ access_token = Some(TOKEN_FILE)
    /\ api = Some([access_token |-> TOKEN_FILE, org_uuid |-> ORG])
    /\ session = None
    /\ net = <<>> /\ inflight = 0 /\ responses = <<>> /\ http_responses = <<>>
    /\ all_events = <<>> /\ after_id = None /\ fetched = <<>> /\ last_page = None
    /\ ge_result = None
    /\ out = <<>>
    /\ IdleDecode
    /\ IdleSide

NextLoop == LoopSend \/ LoopPage \/ LoopFails

SpecLoop ==
    InitLoop /\ [][NextLoop]_vars /\ WF_vars(LoopSend) /\ WF_vars(LoopPage \/ LoopFails)

(***************************************************************************)
(* Properties.                                                             *)
(***************************************************************************)
GeDone == ge_result # None
GeOk == ge_result # None /\ ge_result[1].ok
InLoop == pc \in {"ge_loop", "ge_await"}

\* C1: with max_events = N > 0, once the pages received hold N events or more
\* get_events has returned exactly the first N events of their concatenation
\* and is no longer in its loop, so it issues no further page request,
\* whatever has_more the last page carried.
C1_CapReturnsFirstN ==
    (max_events > 0 /\ Len(fetched) >= max_events) =>
        /\ ~InLoop
        /\ GeOk
        /\ Len(ge_result[1].val) = max_events
        /\ ge_result[1].val = SubSeq(fetched, 1, max_events)
        /\ EventRequests(net) = Len(responses)

\* the cap was reached in the middle of the second page, which said has_more = true
C1_Witness ==
    /\ max_events = 2
    /\ Len(fetched) = 3
    /\ EventRequests(net) = 2
    /\ last_page # None /\ last_page[1].has_more = Some(TRUE)
    /\ GeOk
    /\ pc = "exit"

\* C2: a page request is issued after a page only when that page said
\* has_more = true; a page whose has_more is absent or false is the last one
\* requested, cursor or not, for every max_events.
C2_NoRequestAfterLastPage ==
    [][EventRequests(net') > EventRequests(net) =>
          (last_page = None \/ last_page[1].has_more = Some(TRUE))]_vars

\* page 1 carried a cursor and has_more = false: one request, then done
C2_Witness ==
    /\ GeOk
    /\ EventRequests(net) = 1
    /\ last_page # None
    /\ last_page[1].has_more = Some(FALSE)
    /\ last_page[1].last_id = Some(C_1)
    /\ Len(fetched) > 0
    /\ max_events = 2

\* C3: with max_events = 0 get_events stays in its loop while the last page
\* said has_more = true, and what it returns is every event of every page
\* received, in order, the last page being one whose has_more is not true.
C3_UnboundedReturnsAll ==
    max_events = 0 =>
        /\ GeOk => /\ ge_result[1].val = fetched
                   /\ last_page # None
                   /\ last_page[1].has_more # Some(TRUE)
        /\ (last_page # None /\ last_page[1].has_more = Some(TRUE) /\ ~GeDone) => InLoop

\* a second page was needed and all the events of both came back
C3_Witness ==
    /\ max_events = 0
    /\ GeOk
    /\ EventRequests(net) = 2
    /\ Len(ge_result[1].val) >= 3

\* C4: after a page request failed (not sent, non-2xx, or undecodable) it is
\* the last request, get_events and the command have returned that error,
\* and nothing of the accumulated events was printed or written.
C4_FailureIsTerminal ==
    \A k \in 1..Len(responses) :
        responses[k] # "page" =>
            /\ k = Len(responses)
            /\ EventRequests(net) = k
            /\ inflight = 0
            /\ GeDone /\ ~ge_result[1].ok
            /\ cmd_result = ge_result
            /\ pc = "exit"
            /\ ~Has(out, "transcript") /\ ~Has(out, "total_events") /\ ~Has(out, "file")

\* the second page failed after the first had delivered events
C4_Witness ==
    /\ Len(responses) = 2
    /\ responses[2] \in {"send_failed", "status", "undecodable"}
    /\ Len(all_events) > 0
    /\ pc = "exit"

\* C5: when the k-th page request fails in transport, the error names the
\* session ID and the page index k.
C5_ErrorNamesPage ==
    \A k \in 1..Len(responses) :
        responses[k] \in {"send_failed", "status"} =>
            /\ GeDone /\ ~ge_result[1].ok
            /\ ge_result[1].err.session = Some(session_id)
            /\ ge_result[1].err.page = Some(k)

\* C6: validate_session_id succeeds exactly for session_ followed by at
\* least 8 further characters, and otherwise fails with Invalid session ID
\* format.
C6_ValidExactlyPattern ==
    pc # "start" =>
        /\ cmd_result = None <=>
              (starts_with(session_id, SESSION_PREFIX)
               /\ Len(session_id) - Len(SESSION_PREFIX) >= 8)
        /\ cmd_result # None =>
              (~cmd_result[1].ok /\ cmd_result[1].err.kind = "Invalid session ID format")

HasStringTag(v) == Has(v.o, "type") /\ v.o["type"].k = "str"

\* C8: an object whose type tag is a string other than the eight fixed tags
\* decodes, whatever else it holds, to Unknown: event_type() is "unknown",
\* created_at() is absent and is_conversation() is false.
C8_UnknownTagDecodes ==
    (decoded # None /\ HasStringTag(raw) /\ raw.o["type"].s \notin WireTags) =>
        /\ decoded[1].ok
        /\ decoded[1].val.variant = V_Unknown
        /\ event_type(decoded[1].val) = <<"u", "n", "k", "n", "o", "w", "n">>
        /\ created_at(decoded[1].val) = None
        /\ ~is_conversation(decoded[1].val)

\* an unrecognized tag next to a created_at and a message of the wrong shape
C8_Witness ==
    /\ decoded # None
    /\ HasStringTag(raw) /\ raw.o["type"].s = <<"f", "u", "t", "u", "r", "e">>
    /\ Has(raw.o, "created_at") /\ raw.o["created_at"].k = "num"
    /\ Has(raw.o, "message") /\ raw.o["message"].k = "null"
    /\ decoded[1].ok

\* C9: decoding a SessionEvent never fails on a JSON object.
C9_DecodeTotal ==
    decoded # None => decoded[1].ok

\* C10: a fixed tag t decodes to an event whose event_type() is t, an event
\* is encoded with type = event_type(), and decoding the encoding of a fixed
\* variant succeeds with the same event_type() and created_at().
C10_TagRoundTrip ==
    /\ (decoded # None /\ decoded[1].ok /\ HasStringTag(raw) /\ raw.o["type"].s \in WireTags)
          => event_type(decoded[1].val) = raw.o["type"].s
    /\ encoded # None =>
          (/\ Has(encoded[1].o, "type")
           /\ encoded[1].o["type"] = JStr(event_type(decoded[1].val)))
    /\ (redecoded # None /\ decoded[1].val.variant # V_Unknown) =>
          /\ redecoded[1].ok
          /\ event_type(redecoded[1].val) = event_type(decoded[1].val)
          /\ created_at(redecoded[1].val) = created_at(decoded[1].val)

\* a tool_use_summary event with a timestamp went through decode, encode, decode
C10_Witness ==
    /\ redecoded # None /\ redecoded[1].ok
    /\ decoded[1].val.variant = V_ToolUseSummary
    /\ created_at(redecoded[1].val) = Some(T_ts)

\* the four tags of the conversational variants
ConversationTags == {<<"s", "y", "s", "t", "e", "m">>, <<"u", "s", "e", "r">>,
                     <<"a", "s", "s", "i", "s", "t", "a", "n", "t">>,
                     <<"r", "e", "s", "u", "l", "t">>}

C12_Kept ==
    {i \in 1..Len(read_events) :
        /\ read_args.type_filter # None =>
              event_type(read_events[i]) = read_args.type_filter[1]
        /\ read_args.conversation_only => is_conversation(read_events[i])
        /\ read_args.search # None =>
              event_contains_text(read_events[i], read_args.search[1])}

SwapCaseChar(c) ==
    IF c = CAPITAL_SIGMA THEN SMALL_SIGMA
    ELSE IF c \in {SMALL_SIGMA, FINAL_SIGMA} THEN CAPITAL_SIGMA
    ELSE IF is_uppercase(c) THEN to_ascii_lowercase(c)
    ELSE IF \E i \in 1..Len(LowerChars) : LowerChars[i] = c
    THEN UpperChars[CHOOSE i \in 1..Len(LowerChars) : LowerChars[i] = c]
    ELSE c

SwapCase(s) == [i \in 1..Len(s) |-> SwapCaseChar(s[i])]
UpperCase(s) == [i \in 1..Len(s) |-> SwapCaseChar(to_ascii_lowercase(s[i]))]
SwapCaseOpt(x) == IF x = None THEN None ELSE Some(SwapCase(x[1]))

\* a JSON value with the case of every string in it swapped
RECURSIVE SwapCaseJson(_)
SwapCaseJson(v) ==
    IF v.k = "str" THEN JStr(SwapCase(v.s))
    ELSE IF v.k = "arr" THEN JArr([i \in 1..Len(v.a) |-> SwapCaseJson(v.a[i])])
    ELSE IF v.k = "obj" THEN JObj([key \in DOMAIN v.o |-> SwapCaseJson(v.o[key])])
    ELSE v

SwapCaseJsonOpt(x) == IF x = None THEN None ELSE Some(SwapCaseJson(x[1]))

SwapCaseBlock(b) ==
    IF b.variant = B_Text THEN [b EXCEPT !.text = SwapCaseOpt(b.text)]
    ELSE IF b.variant = B_Thinking THEN [b EXCEPT !.thinking = SwapCaseOpt(b.thinking)]
    ELSE IF b.variant = B_ToolUse
    THEN [b EXCEPT !.name = SwapCaseOpt(b.name), !.input = SwapCaseJsonOpt(b.input)]
    ELSE IF b.variant = B_ToolResult
    THEN [b EXCEPT !.content = SwapCaseJsonOpt(b.content)]
    ELSE b

\* an event with the case of every stored text swapped
SwapCaseEvent(e) ==
    IF e.variant = V_User
    THEN IF Has(e.message.content, "Text")
         THEN [e EXCEPT !.message.content = [Text |-> SwapCase(e.message.content.Text)]]
         ELSE [e EXCEPT !.message.content =
                  [Blocks |-> [i \in 1..Len(e.message.content.Blocks) |->
                                  SwapCaseJson(e.message.content.Blocks[i])]]]
    ELSE IF e.variant = V_Assistant
    THEN [e EXCEPT !.message.content =
             [Vec |-> [i \in 1..Len(e.message.content.Vec) |->
                          SwapCaseBlock(e.message.content.Vec[i])]]]
    ELSE IF e.variant = V_ToolUseSummary THEN [e EXCEPT !.summary = SwapCaseOpt(e.summary)]
    ELSE IF e.variant = V_EnvManagerLog
    THEN IF e.data = None THEN e
         ELSE [e EXCEPT !.data = Some([content |-> SwapCaseOpt(e.data[1].content),
                                       level |-> SwapCaseOpt(e.data[1].level)])]
    ELSE IF e.variant = V_System THEN [e EXCEPT !.subtype = SwapCaseOpt(e.subtype)]
    ELSE IF e.variant = V_ToolProgress THEN [e EXCEPT !.tool_name = SwapCaseOpt(e.tool_name)]
    ELSE e

\* C14: what event_contains_text returns does not change when the letter
\* case of the needle or of the stored text is changed: the needle in upper
\* case, the needle with every letter in its other case, and the event with
\* every stored letter in its other case all give the same answer.
C14_SearchIgnoresCase ==
    found # None =>
        /\ found[1] = event_contains_text(search_event, UpperCase(search_needle))
        /\ found[1] = event_contains_text(search_event, SwapCase(search_needle))
        /\ found[1] = event_contains_text(SwapCaseEvent(search_event), search_needle)
        /\ found[1] = event_contains_text(SwapCaseEvent(search_event), SwapCase(search_needle))

\* the texts event_contains_text is specified to search in an event
Surfaces(e) ==
    IF e.variant = V_User
    THEN (IF Has(e.message.content, "Text") THEN {e.message.content.Text} ELSE {})
    ELSE IF e.variant = V_Assistant
    THEN UNION {LET b == e.message.content.Vec[i] IN
                IF b.variant = B_Text THEN {b.text[j] : j \in DOMAIN b.text}
                ELSE IF b.variant = B_Thinking THEN {b.thinking[j] : j \in DOMAIN b.thinking}
                ELSE IF b.variant = B_ToolUse
                THEN {b.name[j] : j \in DOMAIN b.name}
                     \cup {JsonText(b.input[j]) : j \in DOMAIN b.input}
                ELSE IF b.variant = B_ToolResult
                THEN {JsonText(b.content[j]) : j \in DOMAIN b.content}
                ELSE {} : i \in 1..Len(e.message.content.Vec)}
    ELSE IF e.variant = V_ToolUseSummary THEN {e.summary[j] : j \in DOMAIN e.summary}
    ELSE IF e.variant = V_EnvManagerLog
    THEN (IF e.data = None THEN {}
          ELSE {e.data[1].content[j] : j \in DOMAIN e.data[1].content})
    ELSE IF e.variant = V_System THEN {e.subtype[j] : j \in DOMAIN e.subtype}
    ELSE {}

\* two characters that are the same letter in any case, or the same character
SameLetter(a, b) == a = b \/ SwapCaseChar(a) = b \/ SwapCaseChar(b) = a

\* the needle occurs in the text when letter case is disregarded
CaselessContains(text, n) ==
    \E off \in 0..(Len(text) - Len(n)) :
        \A i \in 1..Len(n) : SameLetter(text[off + i], n[i])

\* C15: event_contains_text is true exactly when the needle is a
\* case-insensitive substring of a searchable surface of the event (user
\* plain-string content; assistant text, thinking, tool-use name, serialized
\* tool-use input, serialized tool-result content; tool_use_summary summary;
\* env_manager_log content; system subtype), hence false for every needle on
\* user array content, Other blocks, tool_progress, result, control_response
\* and unknown events.
C15_SearchSurfaces ==
    found # None =>
        /\ found[1] <=> \E t \in Surfaces(search_event) : CaselessContains(t, search_needle)
        /\ (\/ search_event.variant \in {V_ToolProgress, V_Result, V_ControlResponse, V_Unknown}
            \/ (search_event.variant = V_User /\ Has(search_event.message.content, "Blocks")))
              => ~found[1]

\* a session whose created_at is absent or is not a date and time
NoTimestamp(s) == s.created_at = None \/ ~ParseDateTimeUtc(s.created_at[1]).ok

\* C13: in cmd_list a session whose created_at is absent or does not parse
\* is never excluded by --after or --before, whichever of the two are
\* supplied: when the limit did not cut the list, every such session that
\* passes the status filter is among the rows shown, and whenever there is
\* such a session at least one row is shown.
C13_NoTimestampNeverExcluded ==
    (sessions # None /\ Has(out, "rows")) =>
        LET ss == sessions[1]
            passes(i) == list_args.status_filter = None
                         \/ ss[i].session_status = list_args.status_filter
            untimed == {i \in 1..Len(ss) : NoTimestamp(ss[i]) /\ passes(i)}
            shown == {j \in 1..Len(out.rows) : NoTimestamp(out.rows[j])}
        IN
        /\ Len(out.rows) < list_args.limit => Cardinality(shown) = Cardinality(untimed)
        /\ (untimed # {} /\ list_args.limit >= 1) => out.rows # <<>>

\* both bounds were supplied; of a session created before the range and one
\* whose created_at is a date without a time, the second alone is shown
C13_Witness ==
    /\ sessions # None /\ Has(out, "rows")
    /\ list_args.after # None /\ list_args.before # None
    /\ Len(sessions[1]) = 2
    /\ sessions[1][1].created_at = Some(TS_NOON)
    /\ sessions[1][2].created_at = Some(DATE_ONLY)
    /\ out.rows = <<sessions[1][2]>>

\* the sources that exist on the platform, in the order of the claim
AvailableSources == IF cred_env.platform = "macos" THEN <<"keychain", "file">> ELSE <<"file">>

\* a source holds credentials that load
SourceSucceeds(src) ==
    IF src = "keychain" THEN cred_env.keychain = "ok" ELSE cred_env.file = "ok"

TokenOf(src) == IF src = "keychain" THEN TOKEN_KEYCHAIN ELSE TOKEN_FILE

\* C16: load_credentials consults the Keychain before the file where there
\* is a Keychain; a Keychain failure of any kind lets it go on to the file;
\* the first source that succeeds gives the token and no later source is
\* consulted; it fails only when every available source was consulted and
\* failed.
C16_StoreFirstThenFile ==
    cred_result # None =>
        /\ \E n \in 1..Len(AvailableSources) : cred_log = SubSeq(AvailableSources, 1, n)
        /\ \A k \in 1..(Len(cred_log) - 1) : ~SourceSucceeds(cred_log[k])
        /\ cred_result[1].ok <=> SourceSucceeds(cred_log[Len(cred_log)])
        /\ cred_result[1].ok => cred_result[1].val = TokenOf(cred_log[Len(cred_log)])
        /\ ~cred_result[1].ok =>
              /\ cred_log = AvailableSources
              /\ \A k \in 1..Len(cred_log) : ~SourceSucceeds(cred_log[k])

\* on macOS the Keychain output did not parse and the file gave the token
C16_Witness ==
    /\ cred_result # None /\ cred_result[1].ok
    /\ cred_env.platform = "macos"
    /\ cred_env.keychain = "bad_json"
    /\ cred_log = <<"keychain", "file">>
    /\ cred_result[1].val = TOKEN_FILE

\* the sources an error message of load_credentials mentions
SourcesNamed(e) ==
    IF e.kind = "No Claude Code credentials found. Checked macOS Keychain and path"
    THEN {"keychain", "file"}
    ELSE IF e.kind \in {"No Claude Code credentials found at path",
                        "Failed to read credentials from path",
                        "Failed to parse credentials JSON from path"}
    THEN {"file"}
    ELSE {"keychain"}

\* the messages that say no credentials were found
NoCredentialsKinds == {"No Claude Code credentials found. Checked macOS Keychain and path",
                       "No Claude Code credentials found at path"}

\* C17: whenever load_credentials fails, with the file missing or holding
\* malformed JSON, the error is the no-credentials error and its message
\* names every source that was consulted and the resolved file path.
C17_FailureNamesEverySource ==
    (cred_result # None /\ ~cred_result[1].ok) =>
        /\ cred_result[1].err.kind \in NoCredentialsKinds
        /\ SourcesNamed(cred_result[1].err) = {cred_log[k] : k \in 1..Len(cred_log)}
        /\ Has(cred_result[1].err, "path")
        /\ cred_result[1].err.path
              = Some(credentials_file_path(cred_env.config_dir, cred_env.home))

\* the messages of the non-2xx branch of each endpoint call
Non2xxKinds == {"Failed to fetch profile (token may be expired)",
                "Failed to list sessions",
                "Session not found",
                "Failed to fetch events for session: status - body",
                "Failed to fetch loglines for session: status - body"}

IsSuccess(status) == status >= 200 /\ status <= 299

\* C18: a response whose status is not 2xx, from any endpoint, never yields
\* a success: it is the last response, the command has ended with the
\* non-2xx failure of that call, the failure carries the status and the
\* body the server sent, and nothing was decoded from the response.
C18_Non2xxCarriesStatusAndBody ==
    \A k \in 1..Len(http_responses) :
        ~IsSuccess(http_responses[k].status) =>
            /\ k = Len(http_responses)
            /\ pc = "exit"
            /\ cmd_result # None /\ ~cmd_result[1].ok
            /\ cmd_result[1].err.kind \in Non2xxKinds
            /\ cmd_result[1].err.status = Some(http_responses[k].status)
            /\ cmd_result[1].err.body = Some(http_responses[k].body)
            /\ http_responses[k].ep = "profile" => api = None
            /\ http_responses[k].ep = "session" => session = None
            /\ http_responses[k].ep = "sessions" => sessions = None
            /\ http_responses[k].ep = "events" => (GeDone /\ ~ge_result[1].ok)
            /\ http_responses[k].ep = "loglines" => ~Has(out, "loglines")

\* the requests that go through ApiClient::headers
ClientRequests == {i \in 1..Len(net) : net[i].ep \in {"sessions", "session", "events", "loglines"}}

\* C19: every request of list_sessions, get_session, get_events (each page)
\* and get_loglines carries the five headers: the bearer authorization made
\* from the resolved token, the organization uuid, the beta flag, the API
\* version and the JSON content type; all requests of one ApiClient carry
\* the same values.
C19_FiveHeadersOnEveryRequest ==
    /\ \A i \in ClientRequests :
          /\ DOMAIN net[i].headers = {"authorization", "x-organization-uuid", "anthropic-beta",
                                      "anthropic-version", "content-type"}
          /\ access_token # None /\ api # None
          /\ net[i].headers["authorization"] = <<"Bearer ", access_token[1]>>
          /\ net[i].headers["x-organization-uuid"] = api[1].org_uuid
          /\ net[i].headers["anthropic-beta"] = "ccr-byoc-2025-07-29"
          /\ net[i].headers["anthropic-version"] = "2023-06-01"
          /\ net[i].headers["content-type"] = "application/json"
    /\ \A i, j \in ClientRequests : net[i].headers = net[j].headers

\* get_session and two event pages were requested with the token of the
\* credentials file
C19_Witness ==
    /\ cmd = "export"
    /\ Cardinality(ClientRequests) = 3
    /\ EventRequests(net) = 2
    /\ access_token = Some(TOKEN_FILE)

\* the messages with which fetch_org_uuid fails
ProfileKinds == {"Failed to fetch profile",
                 "Failed to fetch profile (token may be expired)",
                 "Failed to parse profile response"}

ProfileRequests == {i \in 1..Len(net) : net[i].ep = "profile"}

\* C20: a command resolves the credentials exactly once and then looks the
\* profile up exactly once, before any session, event or logline request;
\* every later request carries the organization uuid that lookup returned;
\* when the lookup fails the command ends with a profile error and no other
\* request is issued.
C20_OneResolutionOneProfileLookup ==
    /\ cred_calls <= 1
    /\ net # <<>> =>
          /\ cred_calls = 1
          /\ ProfileRequests = {1}
          /\ net[1].headers["authorization"] = <<"Bearer ", access_token[1]>>
    /\ ClientRequests # {} =>
          /\ api # None
          /\ http_responses[1] = Reply("profile", 200, api[1].org_uuid)
          /\ \A i \in ClientRequests :
                net[i].headers["x-organization-uuid"] = http_responses[1].body
    /\ (net # <<>> /\ api = None) =>
          /\ Len(net) = 1
          /\ pc = "exit"
          /\ cmd_result # None /\ ~cmd_result[1].ok
          /\ cmd_result[1].err.kind \in ProfileKinds

\* summary: after the one profile lookup, get_session and two event pages
\* were requested with the uuid it returned
C20_Witness ==
    /\ cmd = "summary"
    /\ cred_calls = 1
    /\ ProfileRequests = {1}
    /\ Cardinality(ClientRequests) = 3
    /\ api # None /\ api[1].org_uuid = ORG
    /\ pc = "exit"

\* the content value of a raw user event
RawContent == raw.o["message"].o["content"]

\* C21: the content of a user message decodes to Text when it is a JSON
\* string and to Blocks, with the same elements in the same order, when it is
\* a JSON array; any other value is rejected; as_text() is present exactly
\* for Text and is then the string.
C21_TextFirstThenBlocks ==
    (decoded # None /\ raw \in RawUserEvents) =>
        /\ (RawContent.k = "str") =>
               /\ decoded[1].ok
               /\ decoded[1].val.message.content = [Text |-> RawContent.s]
               /\ as_text(decoded[1].val.message.content) = Some(RawContent.s)
        /\ (RawContent.k = "arr") =>
               /\ decoded[1].ok
               /\ Has(decoded[1].val.message.content, "Blocks")
               /\ Len(decoded[1].val.message.content.Blocks) = Len(RawContent.a)
               /\ \A i \in 1..Len(RawContent.a) :
                      decoded[1].val.message.content.Blocks[i] = RawContent.a[i]
               /\ as_text(decoded[1].val.message.content) = None
        /\ (RawContent.k \notin {"str", "arr"}) => ~decoded[1].ok
        /\ decoded[1].ok =>
               (as_text(decoded[1].val.message.content) # None
                   <=> Has(decoded[1].val.message.content, "Text"))

\* a list of two values of different kinds was decoded to Blocks
C21_Witness ==
    /\ decoded # None /\ decoded[1].ok
    /\ raw \in RawUserEvents
    /\ RawContent = JArr(<<JStr(T_hi), JNum(1)>>)
    /\ decoded[1].val.message.content.Blocks = <<JStr(T_hi), JNum(1)>>

\* the blocks of a raw assistant event and the tags ContentBlock lists
RawBlocks == raw.o["message"].o["content"].a
BlockTags == {snake_case(BlockVariants[i]) : i \in 1..Len(BlockVariants)}

\* C22: in an assistant event whose blocks with a listed tag are well formed,
\* every block with another tag decodes to Other: the event decodes, and its
\* content has the length of the wire array with, at each position, Other
\* for an unlisted tag and the variant of the tag for a listed one.
C22_UnknownBlockIsOther ==
    (decoded # None /\ raw \in RawAssistantEvents
        /\ \A i \in 1..Len(RawBlocks) : RawBlocks[i] # BadBlock) =>
        /\ decoded[1].ok
        /\ Len(decoded[1].val.message.content.Vec) = Len(RawBlocks)
        /\ \A i \in 1..Len(RawBlocks) :
               LET tag == RawBlocks[i].o["type"].s
                   block == decoded[1].val.message.content.Vec[i]
               IN
               IF tag \in BlockTags
               THEN snake_case(block.variant) = tag
               ELSE block = [variant |-> B_Other]

\* a signature block before a text block: Other first, the text second
C22_Witness ==
    /\ decoded # None /\ decoded[1].ok
    /\ raw \in RawAssistantEvents
    /\ Len(RawBlocks) = 2
    /\ RawBlocks[1].o["type"].s = T_signature
    /\ RawBlocks[2] = RawTextBlock(T_hi)
    /\ decoded[1].val.message.content.Vec[1].variant = B_Other
    /\ decoded[1].val.message.content.Vec[2].variant = B_Text

\* the mapped keys of an object hold null or a value of the kind of their field
MappedKeysWellTyped(o) ==
    /\ \A key \in LoglineStringKeys \cap DOMAIN o : o[key].k \in {"null", "str"}
    /\ \A key \in LoglineBoolKeys \cap DOMAIN o : o[key].k \in {"null", "bool"}

\* C23: a Logline decodes from every object whose mapped keys are well typed,
\* whatever other keys it holds; extra holds exactly the keys that are not
\* mapped, each with its value; the empty object gives a Logline with every
\* field absent and an empty extra.
C23_LoglineKeepsUnknownKeys ==
    (decoded # None /\ raw \in RawLoglines) =>
        /\ decoded[1].ok <=> MappedKeysWellTyped(raw.o)
        /\ decoded[1].ok =>
               /\ DOMAIN decoded[1].val.extra = (DOMAIN raw.o) \ LoglineKeys
               /\ \A key \in DOMAIN decoded[1].val.extra :
                      decoded[1].val.extra[key] = raw.o[key]
        /\ (raw = JObj(NoKey)) =>
               /\ decoded[1].ok
               /\ \A f \in (DOMAIN decoded[1].val) \ {"extra"} : decoded[1].val[f] = None
               /\ decoded[1].val.extra = <<>>

\* an object with mapped keys and two unmapped ones, one of them null
C23_Witness ==
    /\ decoded # None /\ decoded[1].ok
    /\ raw \in RawLoglines
    /\ DOMAIN decoded[1].val.extra = {"unknownField", "uuid"}
    /\ decoded[1].val.extra["unknownField"] = JNull
    /\ decoded[1].val.log_type = Some(<<"u", "s", "e", "r">>)
    /\ decoded[1].val.is_meta = Some(FALSE)

\* the created_at string of a raw event, when it holds one
RawCreatedAt ==
    IF Has(raw.o, "created_at") /\ raw.o["created_at"].k = "str"
    THEN Some(raw.o["created_at"].s) ELSE None

\* C24: for every fixed variant created_at() is the stored string as it came,
\* parseable or not, and the printed timestamp of a string that does not
\* parse as a date and time, the empty string included, is that string.
C24_UnparsedTimestampPassesThrough ==
    (decoded # None /\ raw \in TimestampEvents) =>
        /\ decoded[1].ok
        /\ (raw.o["type"].s \in WireTags) => created_at(decoded[1].val) = RawCreatedAt
        /\ \A ts \in Timestamps :
               (out # <<>> /\ created_at(decoded[1].val) = Some(ts)
                   /\ ts \notin {TS_NOON, TS_OFFSET, TS_LATE}) => out.created = ts

\* a tool_progress event whose created_at is a date without a time was printed
C24_Witness ==
    /\ decoded # None /\ decoded[1].ok
    /\ raw \in TimestampEvents
    /\ decoded[1].val.variant = V_ToolProgress
    /\ created_at(decoded[1].val) = Some(DATE_ONLY)
    /\ out # <<>> /\ out.created = DATE_ONLY

\* C25: when CLAUDE_CONFIG_DIR is set the credentials file is
\* <dir>/.credentials.json, whatever the home directory is; when it is not
\* set the file is <home>/.claude/.credentials.json.
C25_OverrideTakesPrecedence ==
    cred_path # None =>
        /\ (cred_env.config_dir # None) =>
               cred_path[1] = <<cred_env.config_dir[1], ".credentials.json">>
        /\ (cred_env.config_dir = None /\ cred_env.home # None) =>
               cred_path[1] = <<cred_env.home[1], ".claude", ".credentials.json">>

\* the page requests issued so far, in order
PageRequests == SelectSeq(net, LAMBDA r : r.ep = "events")

\* C26: at most one page request is in flight; a page request is sent only
\* when every earlier one has been answered with a page that was decoded;
\* the first carries no after_id and each later one carries the last_id of
\* the page before it.
C26_PagesSequentialAndChained ==
    /\ [](/\ inflight \in {0, 1}
          /\ Len(PageRequests) \in {Len(responses), Len(responses) + 1}
          /\ (PageRequests # <<>>) => PageRequests[1].after_id = None)
    /\ [][Len(PageRequests') > Len(PageRequests) =>
             /\ inflight = 0
             /\ Len(responses) = Len(PageRequests)
             /\ \A i \in 1..Len(responses) : responses[i] = "page"
             /\ (last_page = None) <=> (PageRequests = <<>>)
             /\ PageRequests'[Len(PageRequests')].after_id =
                    (IF last_page = None THEN None ELSE last_page[1].last_id)]_vars

\* the second request was sent with the cursor of the first page
C26_Witness ==
    /\ Len(PageRequests) = 2
    /\ PageRequests[1].after_id = None
    /\ PageRequests[2].after_id = Some(Cursor(1))
    /\ last_page # None /\ last_page[1].last_id = Some(Cursor(1))
    /\ inflight = 1

\* C27: with max_events > 0 get_events returns, whatever the server answers;
\* with max_events = 0 it returns if the server at some point answers with a
\* page whose has_more is not true.
C27_GetEventsTerminates ==
    /\ (max_events > 0) => <>GeDone
    /\ (max_events = 0) =>
          (<>(last_page # None /\ last_page[1].has_more # Some(TRUE)) => <>GeDone)

\* C28: the accumulator is always a prefix of the events of the pages
\* received so far, in the order received; with max_events > 0 the result
\* holds at most max_events events, and when the pages received hold fewer
\* the result is all of them and the last page did not say has_more = true.
C28_AccumulatorIsPrefix ==
    /\ Len(all_events) <= Len(fetched)
    /\ all_events = SubSeq(fetched, 1, Len(all_events))
    /\ (GeOk /\ max_events > 0) =>
          /\ Len(ge_result[1].val) <= max_events
          /\ ge_result[1].val = all_events
          /\ (Len(fetched) < max_events) =>
                 /\ ge_result[1].val = fetched
                 /\ last_page[1].has_more # Some(TRUE)

\* the first page held one event and said has_more = true, the second was
\* empty and ended the fetch below the cap: the one event came back
C28_Witness ==
    /\ GeOk
    /\ max_events = 2
    /\ EventRequests(net) = 2
    /\ Len(fetched) = 1
    /\ ge_result[1].val = fetched
    /\ last_page[1].has_more # Some(TRUE)


\* C29: no two page requests of a get_events call carry the same cursor; in
\* particular only the first is sent without one.
C29_NoCursorSentTwice ==
    \A i, j \in 1..Len(PageRequests) :
        i < j => PageRequests[i].after_id # PageRequests[j].after_id

\* C30: when cmd_export has written to the output file, or touched it, the
\* session ID was valid, the client was built after the output directory was
\* checked, the session was fetched and get_events with max_events = 0
\* returned every event of every page, the last page being one whose
\* has_more is not true; no request failed.  A written file holds as many
\* events as its total_events says, those get_events returned.
C30_ExportOnlyAfterFullFetch ==
    (cmd = "export") =>
        /\ (Has(out, "file") \/ Has(out, "partial_file")) =>
               /\ validate_session_id(session_id).ok
               /\ api # None
               /\ session # None
               /\ GeOk
               /\ ge_result[1].val = fetched
               /\ last_page[1].has_more # Some(TRUE)
               /\ \A k \in 1..Len(responses) : responses[k] = "page"
               /\ \A k \in 1..Len(http_responses) : IsSuccess(http_responses[k].status)
               /\ pc = "exit"
        /\ Has(out, "file") =>
               /\ out.file.total_events = Len(out.file.events)
               /\ Len(out.file.events) = Len(ge_result[1].val)
               /\ out.file.session = session[1]
               /\ cmd_result = Some(Ok("unit"))
        /\ (cmd_result # None /\ ~cmd_result[1].ok /\ ~GeOk) => out = <<>>

\* two pages were fetched and the file holds the events of both
C30_Witness ==
    /\ cmd = "export"
    /\ Has(out, "file")
    /\ EventRequests(net) = 2
    /\ out.file.total_events >= 2
    /\ Len(out.file.events) = Len(fetched)

====
